---------------------------- MODULE Spec2Model ----------------------------
(***************************************************************************)
(* able-seaman: a release manager for a Kubernetes-style object store.     *)
(*                                                                         *)
(* The module models                                                       *)
(*   - the object store (cluster objects and config maps),                 *)
(*   - the mutex lock                     (src/src/k8s/lock.rs),           *)
(*   - the plan builder and executor      (src/src/release/plan.rs),       *)
(*   - the rollback engine                (src/src/release/rollback.rs),   *)
(*   - the release state and the manager  (src/src/manager.rs),            *)
(*   - the verifier                       (src/src/release/verify.rs),     *)
(*   - the object set builder             (src/src/objects.rs).            *)
(*                                                                         *)
(* Specifications:                                                         *)
(*   SpecPlan   the pure plan functions applied to bounded inputs          *)
(*   SpecValue  the subset check of the verifier on bounded JSON values    *)
(*   SpecSeq    one client issuing manager operations one after another    *)
(*   SpecRoll   one client, releases of up to three objects                *)
(*   SpecGet    one client up to the return of the state read              *)
(*   SpecVerify one client verifying, an outside party editing an object   *)
(*   Spec       two clients issuing manager operations concurrently        *)
(*   SpecLive   Spec without faults, under weak fairness of the clients    *)
(*   SpecNames  two clients deploying releases of any names                *)
(*   SpecReenter  a client acquiring the lock it already holds             *)
(*   SpecConflict one client, a foreign object under a release identifier  *)
(*   SpecCancel   one client whose deploy may be cancelled during a step   *)
(*   SpecBuild    calls of add_dynamic_object and finish on one builder    *)
(* Every store call is one atomic step (a suspension point of the code);   *)
(* a store call may fail with a transport error while faults remain.       *)
(***************************************************************************)
EXTENDS Naturals, Sequences, FiniteSets, TLC

\* ------------------------------------------------------------------ bounds

\* Number of distinct object bodies an identifier may carry.
MaxData == 2
\* Transport faults injected in one behaviour of SpecSeq.
MaxFaults == 2
\* Manager operations issued by the client of SpecSeq.
MaxOps == 3

\* ------------------------------------------------------------- data model

None == "none"

\* Identifier: the (group, version, kind, name) key of an object.
Ids == {"a", "c", "s"}

Data == 1..MaxData

ReleaseNames == {"r1"}

\* annotation value written by CrateVersion
CrateVersion == "v"

\* A DynamicObject: name, opaque body, the two labels and the annotation the
\* tool reads and writes (None: the key is not present on the object).
Object(id, data, type, release, version) ==
    [id |-> id, data |-> data, type |-> type, release |-> release,
     version |-> version]

\* An object as external ingestion delivers it: no tool labels.
Plain(id, data) == Object(id, data, None, None, None)

\* WithLabels::with_label / WithAnnotations::with_annotation: insert, replacing
\* a value already stored under the key.
with_label_type(o, value) == [o EXCEPT !.type = value]

with_label_release(o, value) == [o EXCEPT !.release = value]

with_annotation_version(o, value) == [o EXCEPT !.version = value]

\* A plausible slip: the release label is not written.
tag_object_NoRelease(release_name, object) ==
    with_annotation_version(with_label_type(object, "managed"), CrateVersion)

\* ReleasePlan::tag_object
tag_object(release_name, object) ==
    with_annotation_version(
        with_label_release(with_label_type(object, "managed"), release_name),
        CrateVersion)

\* ------------------------------------------------------------ object sets

\* All sequences without repetition over the set S (iteration orders).
RECURSIVE Perms(_)
Perms(S) ==
    IF S = {} THEN {<< >>}
    ELSE UNION {{<<x>> \o t : t \in Perms(S \ {x})} : x \in S}

\* Objects: a HashMap<Identifier, Object>.  `map` is the mapping, `order` the
\* order in which this map instance iterates (fixed while it is not modified).
Objects(map, order) == [map |-> map, order |-> order]

Objects_empty == Objects([k \in {} |-> None], << >>)

Objects_contains(objects, ident) == ident \in DOMAIN objects.map

Objects_ids(objects) == DOMAIN objects.map

\* Image of a sequence under a filter and a map, in the sequence's order.
FilterMap(seq, Keep(_), F(_)) ==
    LET kept == SelectSeq(seq, Keep)
    IN [i \in 1..Len(kept) |-> F(kept[i])]

Range(seq) == {seq[i] : i \in 1..Len(seq)}

\* ------------------------------------------------------------ plan builder

Create(new) == [new |-> new]

Upgrade(new, old) == [new |-> new, old |-> old]

Delete(old) == [old |-> old]

ReleasePlan(creations, upgrades, deletions) ==
    [creations |-> creations, upgrades |-> upgrades, deletions |-> deletions]

\* A plausible slip: the upgrade filter is missing from the creations, so an
\* identifier present on both sides is created as well as upgraded.
ReleasePlan_new_NoFilter(release_name, new_objects, old_objects) ==
    LET with_meta(object) == tag_object(release_name, object)
        MkCreate(key) == Create(with_meta(new_objects.map[key]))
        MkUpgrade(key) == Upgrade(with_meta(new_objects.map[key]),
                                  with_meta(old_objects.map[key]))
        MkDelete(key) == Delete(with_meta(old_objects.map[key]))
        Every(key) == TRUE
        InOld(key) == Objects_contains(old_objects, key)
        NotInNew(key) == ~Objects_contains(new_objects, key)
    IN ReleasePlan(FilterMap(new_objects.order, Every, MkCreate),
                   FilterMap(new_objects.order, InOld, MkUpgrade),
                   FilterMap(old_objects.order, NotInNew, MkDelete))

\* ReleasePlan::new
ReleasePlan_new(release_name, new_objects, old_objects) ==
    LET with_meta(object) == tag_object(release_name, object)
        MkCreate(key) == Create(with_meta(new_objects.map[key]))
        MkUpgrade(key) == Upgrade(with_meta(new_objects.map[key]),
                                  with_meta(old_objects.map[key]))
        MkDelete(key) == Delete(with_meta(old_objects.map[key]))
        NotInOld(key) == ~Objects_contains(old_objects, key)
        InOld(key) == Objects_contains(old_objects, key)
        NotInNew(key) == ~Objects_contains(new_objects, key)
    IN ReleasePlan(FilterMap(new_objects.order, NotInOld, MkCreate),
                   FilterMap(new_objects.order, InOld, MkUpgrade),
                   FilterMap(old_objects.order, NotInNew, MkDelete))

\* A plausible slip: the undone upgrade keeps `old` on both sides.
undo_SameOld(self) ==
    ReleasePlan([i \in 1..Len(self.deletions) |-> Create(self.deletions[i].old)],
                [i \in 1..Len(self.upgrades) |->
                    Upgrade(self.upgrades[i].old, self.upgrades[i].old)],
                [i \in 1..Len(self.creations) |-> Delete(self.creations[i].new)])

\* ReleasePlan::undo
undo(self) ==
    ReleasePlan([i \in 1..Len(self.deletions) |-> Create(self.deletions[i].old)],
                [i \in 1..Len(self.upgrades) |->
                    Upgrade(self.upgrades[i].old, self.upgrades[i].new)],
                [i \in 1..Len(self.creations) |-> Delete(self.creations[i].new)])

\* ------------------------------------------------------------ object store

\* The store maps the identifiers of the objects that exist to their content
\* (a function whose domain is the set of existing objects).
Put(store, key, value) == (key :> value) @@ store

Remove(store, key) == [k \in DOMAIN store \ {key} |-> store[k]]

\* Outcome of a store call: the store afterwards and whether the call failed.
Outcome(ok, store) == [ok |-> ok, store |-> store]

\* A plausible slip: the create replaces an object that exists.
create_Replaces(store, object) == Outcome(TRUE, Put(store, object.id, object))

\* transaction::create: POST, rejected (409 AlreadyExists) when the name exists.
create(store, object) ==
    IF object.id \in DOMAIN store THEN Outcome(FALSE, store)
    ELSE Outcome(TRUE, Put(store, object.id, object))

\* transaction::apply: server-side apply PATCH with force; creates or replaces.
apply(store, object) == Outcome(TRUE, Put(store, object.id, object))

\* transaction::delete: DELETE by name, rejected (404 NotFound) when absent.
delete(store, object) ==
    IF object.id \in DOMAIN store THEN Outcome(TRUE, Remove(store, object.id))
    ELSE Outcome(FALSE, store)

\* The store call behind a transaction::Action.
perform(store, action, object) ==
    CASE action = "Create" -> create(store, object)
      [] action = "Apply" -> apply(store, object)
      [] action = "Delete" -> delete(store, object)

\* ----------------------------------------------------------- rollback plan

\* rollback::Plan: the ledger of inverse actions.
rollback_Plan(creations, upgrades, deletions) ==
    [creations |-> creations, upgrades |-> upgrades, deletions |-> deletions]

rollback_Plan_new == rollback_Plan(<< >>, << >>, << >>)

Step(action, object) == [action |-> action, object |-> object]

\* Rollbackable for Create
Create_to_rollback(creation) == Step("Delete", creation.new)

\* A plausible slip: the inverse of an upgrade re-applies the new object.
Upgrade_to_rollback_New(upgrade) == Step("Apply", upgrade.new)

\* Rollbackable for Upgrade
Upgrade_to_rollback(upgrade) == Step("Apply", upgrade.old)

\* A plausible slip: the inverse of a deletion is the deletion again.
Delete_to_rollback_Delete(deletion) == Step("Delete", deletion.old)

\* Rollbackable for Delete
Delete_to_rollback(deletion) == Step("Create", deletion.old)

\* A plausible slip: the inverse is not kept.
register_Nothing(self, inverse) == self

\* rollback::Plan::register
register(self, inverse) ==
    CASE inverse.action = "Create" ->
            [self EXCEPT !.creations = Append(@, inverse.object)]
      [] inverse.action = "Apply" ->
            [self EXCEPT !.upgrades = Append(@, inverse.object)]
      [] inverse.action = "Delete" ->
            [self EXCEPT !.deletions = Append(@, inverse.object)]

\* A plausible slip: the loop over the deletions comes first.
rollback_steps_DeletionsFirst(self) ==
    [i \in 1..Len(self.deletions) |-> Step("Delete", self.deletions[i])]
    \o [i \in 1..Len(self.creations) |-> Step("Create", self.creations[i])]
    \o [i \in 1..Len(self.upgrades) |-> Step("Apply", self.upgrades[i])]

\* rollback::Plan::execute iterates creations, then upgrades, then deletions:
\* the store calls it issues, in order.
rollback_steps(self) ==
    [i \in 1..Len(self.creations) |-> Step("Create", self.creations[i])]
    \o [i \in 1..Len(self.upgrades) |-> Step("Apply", self.upgrades[i])]
    \o [i \in 1..Len(self.deletions) |-> Step("Delete", self.deletions[i])]

\* ------------------------------------------------------------ plan executor

\* ReleasePlan::execute iterates creations, then upgrades, then deletions: the
\* store call of each step and the inverse registered when it succeeds.
Forward(action, object, inverse) ==
    [action |-> action, object |-> object, inverse |-> inverse]

\* A plausible slip: the loop over the deletions is missing.
execute_steps_NoDeletions(self) ==
    [i \in 1..Len(self.creations) |->
        Forward("Create", self.creations[i].new,
                Create_to_rollback(self.creations[i]))]
    \o [i \in 1..Len(self.upgrades) |->
        Forward("Apply", self.upgrades[i].new,
                Upgrade_to_rollback(self.upgrades[i]))]

\* A plausible slip: the loop over the deletions comes first.
execute_steps_DeletionsFirst(self) ==
    [i \in 1..Len(self.deletions) |->
        Forward("Delete", self.deletions[i].old,
                Delete_to_rollback(self.deletions[i]))]
    \o [i \in 1..Len(self.creations) |->
        Forward("Create", self.creations[i].new,
                Create_to_rollback(self.creations[i]))]
    \o [i \in 1..Len(self.upgrades) |->
        Forward("Apply", self.upgrades[i].new,
                Upgrade_to_rollback(self.upgrades[i]))]

execute_steps(self) ==
    [i \in 1..Len(self.creations) |->
        Forward("Create", self.creations[i].new,
                Create_to_rollback(self.creations[i]))]
    \o [i \in 1..Len(self.upgrades) |->
        Forward("Apply", self.upgrades[i].new,
                Upgrade_to_rollback(self.upgrades[i]))]
    \o [i \in 1..Len(self.deletions) |->
        Forward("Delete", self.deletions[i].old,
                Delete_to_rollback(self.deletions[i]))]

\* ------------------------------------------------------------ release state

ReleaseState(current, history) == [current |-> current, history |-> history]

\* A plausible slip: the objects are written with the managed label.
serialize_objects_Managed(objects) ==
    [i \in 1..Len(objects.order) |->
        [identifier |-> objects.order[i],
         object |-> with_label_type(objects.map[objects.order[i]], "managed")]]

\* Serialize for ReleaseStateObjects: a list of {identifier, object} entries
\* in the iteration order of the map.
serialize_objects(objects) ==
    [i \in 1..Len(objects.order) |->
        [identifier |-> objects.order[i],
         object |-> objects.map[objects.order[i]]]]

\* The entries collected into a HashMap: of two entries under one identifier
\* the later one stays.
collect(entries) ==
    LET at(id) == {i \in 1..Len(entries) : entries[i].identifier = id}
        last(id) == CHOOSE i \in at(id) : \A j \in at(id) : j <= i
    IN [id \in {entries[i].identifier : i \in 1..Len(entries)} |->
            entries[last(id)].object]

\* Deserialize for ReleaseStateObjects: the entries collected into a map; the
\* new map instance iterates in `order`.
deserialize_objects(entries, order) == Objects(collect(entries), order)

\* serde_json::to_string(&ReleaseState)
serialize_state(state) ==
    [current |-> serialize_objects(state.current),
     history |-> [i \in 1..Len(state.history) |->
                    serialize_objects(state.history[i])]]

\* The orders in which the map rebuilt from a list of entries may iterate: a
\* fresh HashMap iterates in an order that does not depend on the entries.
IterationOrders(entries) == Perms(DOMAIN collect(entries))

\* One iteration order for each map of a history.
RECURSIVE HistoryOrders(_)
HistoryOrders(history) ==
    IF history = << >> THEN {<< >>}
    ELSE {<<order>> \o rest : order \in IterationOrders(Head(history)),
                              rest \in HistoryOrders(Tail(history))}

\* The iteration orders one decoding of a state may produce: that of the
\* `current` map and those of the history maps.
DecodeOrders(json) ==
    {[current |-> order, history |-> horders] :
        order \in IterationOrders(json.current),
        horders \in HistoryOrders(json.history)}

\* serde_json::from_str::<ReleaseState>; `orders` holds the iteration orders
\* of the rebuilt maps.
deserialize_state(json, orders) ==
    ReleaseState(deserialize_objects(json.current, orders.current),
                 [i \in 1..Len(json.history) |->
                    deserialize_objects(json.history[i], orders.history[i])])

\* A config map: the type label, the process whose create call made it (its
\* uid) and data["release_state"] (<< >>: the key is missing).
ConfigMap(type, owner, data) == [type |-> type, owner |-> owner, data |-> data]

\* ReleaseState::to_config_map
to_config_map(state) ==
    ConfigMap("release-state", None, <<serialize_state(state)>>)

\* serde_json::from_str::<ReleaseState> succeeds on a JSON object that has the
\* two fields; further fields are ignored.
decodable(json) == {"current", "history"} \subseteq DOMAIN json

\* A text under data["release_state"] that is not a ReleaseState (a JSON
\* object lacking a field; a text that is no JSON object is rejected alike).
Undecodable == [current |-> << >>]

\* A state object written by another party: a field the tool does not know
\* and two entries under one identifier.
ForeignState ==
    [current |-> <<[identifier |-> "a", object |-> Plain("a", 1)],
                   [identifier |-> "a", object |-> Plain("a", MaxData)]>>,
     history |-> << >>,
     extra |-> 1]

\* ReleaseState::from_config_map: Ok, or the ReleaseStateError it returns.
from_config_map(config_map) ==
    CASE config_map.data = << >> -> "CorruptReleaseState"
      [] ~decodable(config_map.data[1]) -> "JSONError"
      [] OTHER -> "Ok"

from_config_map_ok(config_map) == from_config_map(config_map) = "Ok"

\* Release::lock: the name of the lock object of a release.
lock_name(release_name) == release_name \o "-lock"

\* impl Hash for Release: the name, then (key, JSON of the object) per entry in
\* iteration order.  The hash is modelled by the hashed stream itself.
hash_value(release_name, objects) ==
    <<release_name,
      [i \in 1..Len(objects.order) |->
          <<objects.order[i], objects.map[objects.order[i]]>>]>>

\* ------------------------------------------------------------------ state

Procs == {"p1", "p2"}

VARIABLES
    objs,       \* cluster objects: identifier -> object
    cms,        \* config maps (release states and locks): name -> ConfigMap
    proc,       \* per client: the position and the locals of its operation
    ops,        \* per client: manager operations it may still issue
    faults,     \* transport faults that may still be injected
    menu,       \* the desired object sets the clients may deploy
    pin,        \* SpecPlan, SpecValue: the inputs of the pure functions;
                \* SpecBuild: the builder's object map
    pout,       \* SpecPlan, SpecValue: the results so far, oldest first;
                \* SpecBuild: the outcome of the last call
    pstage      \* SpecPlan, SpecValue: number of functions applied so far;
                \* SpecBuild: number of calls on the builder

vars == <<objs, cms, proc, ops, faults, menu, pin, pout, pstage>>

mgrvars == <<objs, cms, proc, ops, faults, menu>>

planvars == <<pin, pout, pstage>>

EmptyStore == [k \in {} |-> None]

EmptyPlan == ReleasePlan(<< >>, << >>, << >>)

NoStep == Step(None, Plain(None, 0))

\* The value an operation returned: tag (Installed, Upgraded, Unchanged,
\* Deleted, NotDeployed, Err), the error kind, the call that produced the
\* error, for executor errors the failing forward step and rollback step, for
\* a ReleaseStateError its variant, and for a VerificationError about one
\* object the identifier of that object.
Ret(tag, err, origin, cause, rberr) ==
    [tag |-> tag, err |-> err, origin |-> origin, cause |-> cause,
     rberr |-> rberr, kind |-> None, ident |-> None, path |-> << >>]

NoRet == Ret(None, None, None, NoStep, NoStep)

Ok(tag) == Ret(tag, None, None, NoStep, NoStep)

Err(err, origin) == Ret("Err", err, origin, NoStep, NoStep)

\* The error of ReleaseState::get, `kind` its ReleaseStateError variant.
GetErr(kind) == [Err("ReleaseStateError", "get") EXCEPT !.kind = kind]

\* The persisted config map under `name`, as a sequence of at most one element.
Persisted(store, name) ==
    IF name \in DOMAIN store THEN <<store[name]>> ELSE << >>

ProcInit ==
    [pc |-> "idle", op |-> None, name |-> None, release |-> Objects_empty,
     held |-> FALSE, deleted |-> FALSE,
     state |-> ReleaseState(Objects_empty, << >>),
     next |-> ReleaseState(Objects_empty, << >>),
     todo |-> << >>, ctx |-> None,
     fwd |-> EmptyPlan, plan |-> EmptyPlan, k |-> 0,
     ledger |-> rollback_Plan_new, rk |-> 0,
     cause |-> NoStep, ret |-> NoRet,
     \* history variables, read by the properties only
     waited |-> FALSE, dropFailed |-> FALSE,
     items |-> EmptyStore,
     preState |-> << >>, prePlan |-> EmptyStore, preExec |-> EmptyStore,
     consistent |-> TRUE, exact |-> TRUE, holdsPrev |-> TRUE,
     forwardDone |-> FALSE, again |-> FALSE,
     calls |-> << >>, rcalls |-> << >>, regs |-> << >>,
     \* the watch of wait_for_deletion: a Deleted event of the name is pending
     event |-> FALSE,
     \* history variable: how wait_for_deletion returned Ok the last time
     wake |-> None,
     \* the client called Lock::new again while holding a handle for the name
     nested |-> FALSE]

\* ----------------------------------------------------------------- inputs

MapOf(S, data) == [id \in S |-> Plain(id, data[id])]

\* The desired object sets the client of SpecSeq may deploy.
InputMaps ==
    { MapOf({"a", "s"}, [id \in {"a", "s"} |-> 1]),
      MapOf({"a", "c"}, ("a" :> MaxData) @@ ("c" :> 1)),
      MapOf({"a", "s"}, ("a" :> MaxData) @@ ("s" :> 1)),
      MapOf({"a"}, [id \in {"a"} |-> MaxData]) }

\* The desired object sets the clients of Spec may deploy.
ConcInputMaps ==
    { MapOf({"a", "s"}, [id \in {"a", "s"} |-> 1]),
      MapOf({"a"}, [id \in {"a"} |-> MaxData]) }

\* ------------------------------------------------------- manager: helpers

\* Whether the store holds exactly `object` under its identifier.
Has(store, object) ==
    object.id \in DOMAIN store /\ store[object.id] = object

\* Whether the store holds every object of `objects` under its identifier.
HoldsAll(store, objects) ==
    \A id \in DOMAIN objects : Has(store, objects[id])

\* Whether the store holds the pre-image of every upgrade and deletion of a plan.
PlanConsistent(store, plan) ==
    /\ \A i \in 1..Len(plan.upgrades) : Has(store, plan.upgrades[i].old)
    /\ \A i \in 1..Len(plan.deletions) : Has(store, plan.deletions[i].old)

\* The objects of a set as ReleasePlan tags them.
Tagged(release_name, objects) ==
    [id \in DOMAIN objects.map |-> tag_object(release_name, objects.map[id])]

\* Drop for Lock returns before the delete when the handle was released.
Drop_returns_early_Always(lock) == TRUE

\* A plausible slip: the `deleted` flag is not consulted.
Drop_returns_early_Never(lock) == FALSE

Drop_returns_early(lock) == lock.deleted

\* The handle goes out of scope: Drop for Lock runs.
Dispose(rec) ==
    IF Drop_returns_early(rec)
    THEN [rec EXCEPT !.pc = "done", !.held = FALSE]
    ELSE [rec EXCEPT !.pc = "drop"]

\* Lock::new_with, the match on the result of the create call.
new_with_on_create_NoWait(result) ==
    CASE result = "Error" -> "fail"
      [] OTHER -> "acquired"

\* A plausible slip: every error of the create is taken for a conflict.
new_with_on_create_AlwaysWait(result) ==
    CASE result = "Created" -> "acquired"
      [] OTHER -> "wait"

\* A plausible slip: a conflict is returned as an error.
new_with_on_create_ConflictFails(result) ==
    CASE result = "Created" -> "acquired"
      [] OTHER -> "fail"

new_with_on_create(result) ==
    CASE result = "AlreadyExists" -> "wait"
      [] result = "Created" -> "acquired"
      [] OTHER -> "fail"

\* Manager::deploy, upgrade path: the state to persist.
upgrade_state_KeepCurrent(state, release) ==
    ReleaseState(state.current, <<state.current>> \o state.history)

\* A plausible slip: the previous current set is pushed at the end.
upgrade_state_AppendHistory(state, release) ==
    ReleaseState(release, state.history \o <<state.current>>)

\* A plausible slip: only the previous current set is kept as history.
upgrade_state_DropsHistory(state, release) ==
    ReleaseState(release, <<state.current>>)

upgrade_state(state, release) ==
    ReleaseState(release, <<state.current>> \o state.history)

\* Manager::deploy: the calls made between the state read and the lock release.
deploy_phases_PersistFirst == <<"persist", "execute">>

deploy_phases == <<"execute", "persist">>

\* ReleasePlan::execute is entered with `plan`.
StartExecute(rec, plan, ctx, store) ==
    [rec EXCEPT !.pc = "exec", !.ctx = ctx, !.plan = plan, !.k = 0,
                !.ledger = rollback_Plan_new, !.rk = 0, !.cause = NoStep,
                !.preExec = store,
                !.consistent = PlanConsistent(store, plan),
                !.calls = << >>, !.rcalls = << >>, !.regs = << >>]

\* Manager::deploy continues with the calls that remain.
RECURSIVE RunPhases(_, _)
RunPhases(rec, store) ==
    IF rec.todo = << >> THEN [rec EXCEPT !.pc = "release"]
    ELSE IF Head(rec.todo) = "persist"
    THEN [rec EXCEPT !.pc = "persist", !.todo = Tail(@)]
    ELSE IF execute_steps(rec.fwd) = << >>
    THEN RunPhases([rec EXCEPT !.todo = Tail(@), !.forwardDone = TRUE,
                               !.preExec = store], store)
    ELSE StartExecute([rec EXCEPT !.todo = Tail(@)], rec.fwd, rec.ctx, store)

\* ReleasePlan::execute returned Ok.
AfterExecuteOk(rec, store) ==
    CASE rec.ctx \in {"install", "upgrade"} ->
            RunPhases([rec EXCEPT !.forwardDone = TRUE], store)
      [] rec.ctx = "undo" ->
            \* plan.undo() ran: return Err(err_cause.into())
            Dispose([rec EXCEPT !.ret = Err("ReleaseStateError", "persist")])
      [] rec.ctx = "uninstall" -> [rec EXCEPT !.pc = "d_state"]

\* A plausible slip: the rollback error is built from the forward failure.
AfterExecuteErr_NamesCause(rec, kind, rberr) ==
    LET origin == IF rec.ctx = "undo" THEN "undo" ELSE "plan"
        ret == Ret("Err", kind, origin, rec.cause,
                   IF kind = "RollbackError" THEN rec.cause ELSE rberr)
    IN IF rec.ctx = "uninstall"
       THEN [rec EXCEPT !.pc = "done", !.ret = ret]
       ELSE Dispose([rec EXCEPT !.ret = ret])

\* A plausible slip: a failure of the undo plan is flagged as a rollback error.
AfterExecuteErr_FlagsUndo(rec, kind, rberr) ==
    LET origin == IF rec.ctx = "undo" THEN "undo" ELSE "plan"
        ret == Ret("Err", IF rec.ctx = "undo" THEN "RollbackError" ELSE kind,
                   origin, rec.cause, rberr)
    IN IF rec.ctx = "uninstall"
       THEN [rec EXCEPT !.pc = "done", !.ret = ret]
       ELSE Dispose([rec EXCEPT !.ret = ret])

\* ReleasePlan::execute returned Err: on_err_rollback built release::Error
\* `kind` (ReleaseError or RollbackError) and the caller's `?` returns it.
AfterExecuteErr(rec, kind, rberr) ==
    LET origin == IF rec.ctx = "undo" THEN "undo" ELSE "plan"
        ret == Ret("Err", kind, origin, rec.cause, rberr)
    IN IF rec.ctx = "uninstall"
       THEN [rec EXCEPT !.pc = "done", !.ret = ret]
       ELSE Dispose([rec EXCEPT !.ret = ret])

\* A plausible slip: the error is built without running the ledger.
OnStepErr_SkipRollback(rec, step) ==
    AfterExecuteErr([rec EXCEPT !.cause = Step(step.action, step.object)],
                    "ReleaseError", NoStep)

\* A forward step failed with `step` as its cause: on_err_rollback runs the
\* ledger; an empty ledger completes without a store call.
OnStepErr(rec, step) ==
    LET failed == [rec EXCEPT !.cause = Step(step.action, step.object)]
    IN IF rollback_steps(rec.ledger) = << >>
       THEN AfterExecuteErr(failed, "ReleaseError", NoStep)
       ELSE [failed EXCEPT !.pc = "rollback", !.rk = 0]

\* ------------------------------------------------------ manager: actions

SetProc(p, rec) == proc' = [proc EXCEPT ![p] = rec]

\* The lock object `name` is deleted by p: the watch of every client waiting
\* for that name receives WatchEvent::Deleted.
SetProcDeleted(p, rec, name) ==
    proc' = [r \in Procs |->
                IF r = p THEN rec
                ELSE IF proc[r].pc = "watch" /\ lock_name(proc[r].name) = name
                THEN [proc[r] EXCEPT !.event = TRUE]
                ELSE proc[r]]

UseFault == faults > 0 /\ faults' = faults - 1

NoFault == faults' = faults

\* A client calls Manager::deploy(release), the release named from `names`.
CallDeployOf(p, names) ==
    /\ proc[p].pc \in {"idle", "done"}
    /\ ops[p] > 0
    /\ \E name \in names, m \in menu :
         \E order \in Perms(DOMAIN m) :
            SetProc(p, [ProcInit EXCEPT
                !.pc = "lock", !.op = "deploy", !.name = name,
                !.release = Objects(m, order), !.todo = deploy_phases,
                !.preState = Persisted(cms, name), !.prePlan = objs,
                !.again = /\ proc[p].op = "deploy"
                          /\ proc[p].ret.tag = "Installed"
                          /\ proc[p].name = name
                          /\ proc[p].release = Objects(m, order)])
    /\ ops' = [ops EXCEPT ![p] = @ - 1]
    /\ UNCHANGED <<objs, cms, faults, menu, planvars>>

CallDeploy(p) == CallDeployOf(p, ReleaseNames)

\* Lock::new_with: one turn of the loop, the create call of the lock object.
LockCreate(p) ==
    LET rec == proc[p]
        name == lock_name(rec.name)
        Turn(result) ==
            LET move == new_with_on_create(result)
            IN CASE move = "acquired" ->
                      /\ cms' = IF result = "Created"
                                THEN Put(cms, name, ConfigMap("lock", p, << >>))
                                ELSE cms
                      /\ SetProc(p, [rec EXCEPT !.pc = "get", !.held = TRUE])
                 [] move = "wait" ->
                      /\ cms' = cms
                      /\ SetProc(p, [rec EXCEPT !.pc = "wait", !.waited = TRUE])
                 [] move = "fail" ->
                      /\ cms' = cms
                      /\ SetProc(p, [rec EXCEPT !.pc = "done",
                                                !.ret = Err("KubeError", "lock")])
    IN /\ rec.pc = "lock"
       /\ \/ /\ NoFault
             /\ Turn(IF name \in DOMAIN cms THEN "AlreadyExists" ELSE "Created")
          \/ /\ UseFault
             /\ Turn("Error")
       /\ UNCHANGED <<objs, ops, menu, planvars>>

\* wait_for_deletion: the watch call; events from before it are not delivered.
\* When the call fails `?` makes new_with return the error.
WatchStart(p) ==
    LET rec == proc[p]
    IN /\ rec.pc = "wait"
       /\ \/ /\ NoFault
             /\ SetProc(p, [rec EXCEPT !.pc = "watch", !.event = FALSE])
          \/ /\ UseFault
             /\ SetProc(p, [rec EXCEPT !.pc = "done",
                                       !.ret = Err("KubeError", "wait")])
       /\ UNCHANGED <<objs, cms, ops, menu, planvars>>

\* A plausible slip: the end of the stream is not a return.
wait_for_deletion_returns_OnlyOnEvent(event, closed) == event

\* wait_for_deletion: the loop over the stream returns Ok on a Deleted event
\* of the name and when the stream has ended (timeout of 10 s).
wait_for_deletion_returns(event, closed) == event \/ closed

\* wait_for_deletion returns and the loop of new_with turns again; or the
\* stream yields an error and `?` makes new_with return it.
WaitForDeletion(p) ==
    LET rec == proc[p]
        how == IF rec.event THEN "deleted" ELSE "closed"
    IN /\ rec.pc = "watch"
       /\ \/ /\ NoFault
             /\ \E closed \in BOOLEAN :
                   wait_for_deletion_returns(rec.event, closed)
             /\ SetProc(p, [rec EXCEPT !.pc = "lock", !.event = FALSE,
                                       !.wake = how])
          \/ /\ UseFault
             /\ SetProc(p, [rec EXCEPT !.pc = "done",
                                       !.ret = Err("KubeError", "wait")])
       /\ UNCHANGED <<objs, cms, ops, menu, planvars>>

\* Manager::deploy: ReleaseState::get, then the plan of the install or of the
\* upgrade path up to its first store call.
GetState(p) ==
    LET rec == proc[p]
        name == rec.name
        Install ==
            LET state == ReleaseState(rec.release, << >>)
            IN RunPhases([rec EXCEPT
                    !.ctx = "install", !.state = state, !.next = state,
                    !.fwd = ReleasePlan_new(name, rec.release, Objects_empty),
                    !.exact = (objs = EmptyStore)], objs)
        Upgrade_(state) ==
            IF hash_value(name, state.current) = hash_value(name, rec.release)
            THEN Dispose([rec EXCEPT !.state = state, !.ret = Ok("Unchanged")])
            ELSE RunPhases([rec EXCEPT
                    !.ctx = "upgrade", !.state = state,
                    !.next = upgrade_state(state, rec.release),
                    !.fwd = ReleasePlan_new(name, rec.release, state.current),
                    !.exact = (objs = Tagged(name, state.current)),
                    !.holdsPrev = HoldsAll(objs, Tagged(name, state.current))],
                    objs)
    IN /\ rec.pc = "get"
       /\ \/ /\ NoFault
             /\ IF name \notin DOMAIN cms
                THEN SetProc(p, Install)
                ELSE IF ~from_config_map_ok(cms[name])
                THEN SetProc(p, Dispose([rec EXCEPT
                                !.ret = GetErr(from_config_map(cms[name]))]))
                ELSE LET json == cms[name].data[1]
                     IN \E orders \in DecodeOrders(json) :
                          SetProc(p, Upgrade_(deserialize_state(json, orders)))
          \/ /\ UseFault
             /\ SetProc(p, Dispose([rec EXCEPT !.ret = GetErr("KubeError")]))
       /\ UNCHANGED <<objs, cms, ops, menu, planvars>>

\* ReleasePlan::execute: the store call of the next forward step.
ExecStep(p) ==
    LET rec == proc[p]
        steps == execute_steps(rec.plan)
        step == steps[rec.k + 1]
        out == perform(objs, step.action, step.object)
        issued == [rec EXCEPT !.calls = Append(@, Step(step.action, step.object))]
        done == [issued EXCEPT !.k = @ + 1,
                               !.ledger = register(@, step.inverse),
                               !.regs = Append(@, step.inverse)]
    IN /\ rec.pc = "exec"
       /\ \/ /\ NoFault
             /\ objs' = out.store
             /\ SetProc(p, IF ~out.ok THEN OnStepErr(issued, step)
                           ELSE IF done.k = Len(steps)
                           THEN AfterExecuteOk(done, out.store)
                           ELSE done)
          \/ /\ UseFault
             /\ objs' = objs
             /\ SetProc(p, OnStepErr(issued, step))
       /\ UNCHANGED <<cms, ops, menu, planvars>>

\* rollback::Plan::execute: the store call of the next ledger entry.
RollbackStep(p) ==
    LET rec == proc[p]
        steps == rollback_steps(rec.ledger)
        step == steps[rec.rk + 1]
        out == perform(objs, step.action, step.object)
        issued == [rec EXCEPT !.rcalls = Append(@, step)]
        done == [issued EXCEPT !.rk = @ + 1]
    IN /\ rec.pc = "rollback"
       /\ \/ /\ NoFault
             /\ objs' = out.store
             /\ SetProc(p, IF ~out.ok
                           THEN AfterExecuteErr(issued, "RollbackError", step)
                           ELSE IF done.rk = Len(steps)
                           THEN AfterExecuteErr(done, "ReleaseError", NoStep)
                           ELSE done)
          \/ /\ UseFault
             /\ objs' = objs
             /\ SetProc(p, AfterExecuteErr(issued, "RollbackError", step))
       /\ UNCHANGED <<cms, ops, menu, planvars>>

\* Manager::deploy: ReleaseState::apply; when it fails, plan.undo() is
\* executed (an empty undo plan completes without a store call).
Persist(p) ==
    LET rec == proc[p]
        undone == undo(rec.fwd)
    IN /\ rec.pc = "persist"
       /\ \/ /\ NoFault
             /\ cms' = Put(cms, rec.name, to_config_map(rec.next))
             /\ SetProc(p, RunPhases(rec, objs))
          \/ /\ UseFault
             /\ cms' = cms
             /\ SetProc(p, IF execute_steps(undone) = << >>
                           THEN AfterExecuteOk([rec EXCEPT !.ctx = "undo"], objs)
                           ELSE StartExecute(rec, undone, "undo", objs))
       /\ UNCHANGED <<objs, ops, menu, planvars>>

\* A plausible slip: the error of the release is dropped.
Release_on_error_Ignored(rec, result) == Dispose([rec EXCEPT !.ret = Ok(result)])

\* Manager::deploy, `lock.release().await?`: the error of the delete is the
\* result of deploy; the handle, not marked deleted, goes out of scope.
Release_on_error(rec, result) ==
    Dispose([rec EXCEPT !.ret = Err("KubeError", "release")])

\* Manager::deploy: lock.release() and the return of the result.
Release(p) ==
    LET rec == proc[p]
        name == lock_name(rec.name)
        result == IF rec.ctx = "install" THEN "Installed" ELSE "Upgraded"
        failed == Release_on_error(rec, result)
    IN /\ rec.pc = "release"
       /\ \/ /\ NoFault
             /\ IF name \in DOMAIN cms
                THEN /\ cms' = Remove(cms, name)
                     /\ SetProcDeleted(p, Dispose([rec EXCEPT !.deleted = TRUE,
                                                              !.ret = Ok(result)]),
                                       name)
                ELSE /\ cms' = cms
                     /\ SetProc(p, failed)
          \/ /\ UseFault
             /\ cms' = cms
             /\ SetProc(p, failed)
       /\ UNCHANGED <<objs, ops, menu, planvars>>

\* A plausible slip: the error of the delete becomes the result.
Drop_on_error_Surfaced(lock) ==
    [lock EXCEPT !.dropFailed = TRUE, !.ret = Err("KubeError", "drop")]

\* Drop for Lock, `if let Err(err) = deletion`: the error is printed.
Drop_on_error(lock) == [lock EXCEPT !.dropFailed = TRUE]

\* Drop for Lock: the delete of the lock object; its error is only printed.
Drop(p) ==
    LET rec == proc[p]
        name == lock_name(rec.name)
        gone == [rec EXCEPT !.pc = "done", !.held = FALSE]
    IN /\ rec.pc = "drop"
       /\ \/ /\ NoFault
             /\ IF name \in DOMAIN cms
                THEN /\ cms' = Remove(cms, name)
                     /\ SetProcDeleted(p, gone, name)
                ELSE /\ cms' = cms
                     /\ SetProc(p, Drop_on_error(gone))
          \/ /\ UseFault
             /\ cms' = cms
             /\ SetProc(p, Drop_on_error(gone))
       /\ UNCHANGED <<objs, ops, menu, planvars>>

\* A client calls Manager::delete(name).
CallDelete(p) ==
    /\ proc[p].pc \in {"idle", "done"}
    /\ ops[p] > 0
    /\ \E name \in ReleaseNames :
         SetProc(p, [ProcInit EXCEPT
             !.pc = "d_get", !.op = "delete", !.name = name,
             !.preState = Persisted(cms, name), !.prePlan = objs])
    /\ ops' = [ops EXCEPT ![p] = @ - 1]
    /\ UNCHANGED <<objs, cms, faults, menu, planvars>>

\* Manager::delete: ReleaseState::get, then the plan that deletes the objects
\* of state.current, up to its first store call.
DeleteGetState(p) ==
    LET rec == proc[p]
        name == rec.name
        Uninstall(state) ==
            LET plan == ReleasePlan_new(name, Objects_empty, state.current)
                found == [rec EXCEPT !.state = state, !.release = state.current,
                                     !.fwd = plan, !.ctx = "uninstall",
                                     !.exact = (objs = Tagged(name, state.current))]
            IN IF execute_steps(plan) = << >>
               THEN AfterExecuteOk([found EXCEPT !.preExec = objs], objs)
               ELSE StartExecute(found, plan, "uninstall", objs)
    IN /\ rec.pc = "d_get"
       /\ \/ /\ NoFault
             /\ IF name \notin DOMAIN cms
                THEN SetProc(p, [rec EXCEPT !.pc = "done",
                                            !.ret = Ok("NotDeployed")])
                ELSE IF ~from_config_map_ok(cms[name])
                THEN SetProc(p, [rec EXCEPT !.pc = "done",
                                    !.ret = GetErr(from_config_map(cms[name]))])
                ELSE LET json == cms[name].data[1]
                     IN \E orders \in DecodeOrders(json) :
                          SetProc(p, Uninstall(deserialize_state(json, orders)))
          \/ /\ UseFault
             /\ SetProc(p, [rec EXCEPT !.pc = "done",
                                       !.ret = GetErr("KubeError")])
       /\ UNCHANGED <<objs, cms, ops, menu, planvars>>

\* A plausible slip: the state object is left behind.
delete_state_Keep(store, name) == store

\* Manager::delete: the store after the delete call on the state object.
delete_state(store, name) == Remove(store, name)

\* Manager::delete: the delete of the state object and the return of the plan.
DeleteState(p) ==
    LET rec == proc[p]
        failed == [rec EXCEPT !.pc = "done",
                              !.ret = Err("KubeError", "delete_state")]
    IN /\ rec.pc = "d_state"
       /\ \/ /\ NoFault
             /\ IF rec.name \in DOMAIN cms
                THEN /\ cms' = delete_state(cms, rec.name)
                     /\ SetProc(p, [rec EXCEPT !.pc = "done",
                                               !.ret = Ok("Deleted")])
                ELSE /\ cms' = cms
                     /\ SetProc(p, failed)
          \/ /\ UseFault
             /\ cms' = cms
             /\ SetProc(p, failed)
       /\ UNCHANGED <<objs, ops, menu, planvars>>

StepOf(p) ==
    \/ CallDeploy(p)
    \/ LockCreate(p)
    \/ WatchStart(p)
    \/ WaitForDeletion(p)
    \/ GetState(p)
    \/ ExecStep(p)
    \/ RollbackStep(p)
    \/ Persist(p)
    \/ Release(p)
    \/ Drop(p)
    \/ CallDelete(p)
    \/ DeleteGetState(p)
    \/ DeleteState(p)

Next == \E p \in Procs : StepOf(p)

PlanIdle ==
    /\ pin = [name |-> None, desired |-> Objects_empty, previous |-> Objects_empty]
    /\ pout = << >>
    /\ pstage = 0

InitStore ==
    /\ objs = EmptyStore
    /\ cms = EmptyStore
    /\ proc = [p \in Procs |-> ProcInit]

\* The cluster as deploy(name, objects) leaves it when it returns Installed on
\* an empty cluster: the tagged objects and the state object, no lock object.
\* The state text lists its entries in one order: every read collects them
\* into a map that iterates in an order of its own, so the order of the
\* entries in the text has no bearing on what follows.
InitInstalledOf(maps) ==
    \E name \in ReleaseNames, m \in maps :
        \E order \in {SelectSeq(<<"a", "c", "s">>, LAMBDA id : id \in DOMAIN m)} :
            /\ objs = Tagged(name, Objects(m, order))
            /\ cms = Put(EmptyStore, name,
                         to_config_map(ReleaseState(Objects(m, order), << >>)))
            /\ proc = [p \in Procs |-> ProcInit]

InitInstalled == InitInstalledOf(ConcInputMaps)

\* The release the concurrent specification may find installed; its clients
\* install the other one themselves.
ConcInstalled == {MapOf({"a", "s"}, [id \in {"a", "s"} |-> 1])}

\* Operations of the first client (the second performs one) and transport
\* faults of the concurrent specification.
ConcOps == 1

ConcFaults == 0

\* Two clients against one cluster, empty or with a release installed.
Init ==
    /\ InitStore \/ InitInstalledOf(ConcInstalled)
    /\ ops = [p \in Procs |-> IF p = "p1" THEN ConcOps ELSE 1]
    /\ faults = ConcFaults
    /\ menu = ConcInputMaps
    /\ PlanIdle

Spec == Init /\ [][Next]_vars

\* Two clients, no transport faults, and every client that can take a step
\* eventually takes one: each store call returns and the watch of
\* wait_for_deletion ends after its 10 s at the latest.
InitLive ==
    /\ InitStore \/ InitInstalled
    /\ ops = [p \in Procs |-> 1]
    /\ faults = 0
    /\ menu = ConcInputMaps
    /\ PlanIdle

SpecLive == InitLive /\ [][Next]_vars /\ \A p \in Procs : WF_vars(StepOf(p))

\* One client against one cluster.
InitSeq ==
    /\ InitStore
    /\ ops = [p \in Procs |-> IF p = "p1" THEN MaxOps ELSE 0]
    /\ faults = MaxFaults
    /\ menu = InputMaps
    /\ PlanIdle

SpecSeq == InitSeq /\ [][Next]_vars

\* The desired object sets of SpecRoll: plans with two steps of one class.
RollInputMaps ==
    { MapOf({"a", "c", "s"}, [id \in {"a", "c", "s"} |-> 1]),
      MapOf({"a", "c"}, ("a" :> MaxData) @@ ("c" :> 1)) }

\* Operations and transport faults of SpecRoll.
RollOps == 2

RollFaults == 2

\* One client, releases of up to three objects.
InitRoll ==
    /\ InitStore
    /\ ops = [p \in Procs |-> IF p = "p1" THEN RollOps ELSE 0]
    /\ faults = RollFaults
    /\ menu = RollInputMaps
    /\ PlanIdle

SpecRoll == InitRoll /\ [][Next]_vars

\* A state object whose data["release_state"] is missing, or is not the text
\* of a ReleaseState: the work of an outside party.
InitCorrupt ==
    \E name \in ReleaseNames,
       data \in {<< >>, <<Undecodable>>, <<ForeignState>>} :
        /\ objs = EmptyStore
        /\ cms = Put(EmptyStore, name, ConfigMap("release-state", None, data))
        /\ proc = [p \in Procs |-> ProcInit]

\* Operations and transport faults of SpecGet.
GetOps == 1

GetFaults == 1

\* One client up to the return of ReleaseState::get, against a cluster with no
\* state object, a valid one, or a corrupt one.
InitGet ==
    /\ InitStore \/ InitInstalled \/ InitCorrupt
    /\ ops = [p \in Procs |-> IF p = "p1" THEN GetOps ELSE 0]
    /\ faults = GetFaults
    /\ menu = InputMaps
    /\ PlanIdle

NextGet ==
    \E p \in Procs :
        \/ CallDeploy(p)
        \/ LockCreate(p)
        \/ GetState(p)
        \/ CallDelete(p)
        \/ DeleteGetState(p)

SpecGet == InitGet /\ [][NextGet]_vars

\* ------------------------------------------------------- create conflicts

\* A cluster without releases that holds at most one object made by someone
\* else, under an identifier the releases of the menu use.
InitForeign ==
    /\ cms = EmptyStore
    /\ proc = [p \in Procs |-> ProcInit]
    /\ \/ objs = EmptyStore
       \/ \E id \in {"a", "s"}, d \in Data :
             objs = Put(EmptyStore, id, Plain(id, d))

\* Operations of the client of SpecConflict.
ConflictOps == 2

\* One client deploying into a cluster that may hold a foreign object; no
\* transport faults, so that a create fails only on a conflict.
InitConflict ==
    /\ InitForeign
    /\ ops = [p \in Procs |-> IF p = "p1" THEN ConflictOps ELSE 0]
    /\ faults = 0
    /\ menu = ConcInputMaps
    /\ PlanIdle

NextConflict ==
    \E p \in Procs :
        \/ CallDeploy(p)
        \/ LockCreate(p)
        \/ GetState(p)
        \/ ExecStep(p)
        \/ RollbackStep(p)
        \/ Persist(p)
        \/ Release(p)
        \/ Drop(p)

SpecConflict == InitConflict /\ [][NextConflict]_vars

\* ------------------------------------------------------------ cancellation

\* The caller cancels a deploy while the store call of a plan step is in
\* flight: the future of Manager::deploy is dropped at that await.  The call
\* may or may not have reached the store; no code of ReleasePlan::execute runs
\* after the await, on_err_rollback included.  The lock handle is dropped with
\* the future, unless the whole process ends, in which case Drop does not run.
Cancel(p) ==
    LET rec == proc[p]
        step == execute_steps(rec.plan)[rec.k + 1]
        out == perform(objs, step.action, step.object)
        stopped == [rec EXCEPT !.ret = Ok("Cancelled"),
                               !.calls = Append(@, Step(step.action, step.object))]
    IN /\ rec.pc = "exec"
       /\ \E landed \in BOOLEAN :
             objs' = IF landed /\ out.ok THEN out.store ELSE objs
       /\ \E dropped \in BOOLEAN :
             SetProc(p, IF dropped THEN Dispose(stopped)
                        ELSE [stopped EXCEPT !.pc = "done"])
       /\ UNCHANGED <<cms, ops, faults, menu, planvars>>

\* Operations and transport faults of SpecCancel.
CancelOps == 1

CancelFaults == 1

\* One client whose deploy may be cancelled during a plan step.
InitCancel ==
    /\ InitStore \/ InitInstalled
    /\ ops = [p \in Procs |-> IF p = "p1" THEN CancelOps ELSE 0]
    /\ faults = CancelFaults
    /\ menu = ConcInputMaps
    /\ PlanIdle

NextCancel ==
    \E p \in Procs :
        \/ CallDeploy(p)
        \/ LockCreate(p)
        \/ GetState(p)
        \/ ExecStep(p)
        \/ Cancel(p)
        \/ RollbackStep(p)
        \/ Persist(p)
        \/ Release(p)
        \/ Drop(p)

SpecCancel == InitCancel /\ [][NextCancel]_vars

\* ---------------------------------------------------- re-entrant acquire

\* A client that holds the handle of a lock calls Lock::new for the same name
\* again, before it has released or dropped the first handle.
Reacquire(p) ==
    /\ proc[p].pc = "get"
    /\ proc[p].held
    /\ ~proc[p].nested
    /\ SetProc(p, [proc[p] EXCEPT !.pc = "lock", !.nested = TRUE,
                                  !.waited = FALSE, !.wake = None])
    /\ UNCHANGED <<objs, cms, ops, faults, menu, planvars>>

\* Transport faults of SpecReenter.
ReenterFaults == 2

\* Two clients up to the return of Lock::new; a holder may call it again.
InitReenter ==
    /\ InitStore
    /\ ops = [p \in Procs |-> 1]
    /\ faults = ReenterFaults
    /\ menu = ConcInputMaps
    /\ PlanIdle

NextReenter ==
    \E p \in Procs :
        \/ CallDeploy(p)
        \/ LockCreate(p)
        \/ Reacquire(p)
        \/ WatchStart(p)
        \/ WaitForDeletion(p)

SpecReenter == InitReenter /\ [][NextReenter]_vars

\* ------------------------------------------------------- several releases

\* Release names of SpecNames: those of ReleaseNames and, for each, the name
\* its lock object carries (release names are not restricted).
AnyNames == ReleaseNames \cup {lock_name(name) : name \in ReleaseNames}

\* The desired object sets of SpecNames: one object each, disjoint.
NamesInputMaps ==
    { MapOf({"a"}, [id \in {"a"} |-> 1]),
      MapOf({"s"}, [id \in {"s"} |-> 1]) }

\* A client calls Manager::deploy(release) with a release of any name.
CallDeployNamed(p) == CallDeployOf(p, AnyNames)

\* Two clients deploying releases of any names, without transport faults.  A
\* release holds one object, so the ledger is empty whenever a step fails and
\* no rollback call is made.
InitNames ==
    /\ InitStore
    /\ ops = [p \in Procs |-> 1]
    /\ faults = 0
    /\ menu = NamesInputMaps
    /\ PlanIdle

NextNames ==
    \E p \in Procs :
        \/ CallDeployNamed(p)
        \/ LockCreate(p)
        \/ WatchStart(p)
        \/ WaitForDeletion(p)
        \/ GetState(p)
        \/ ExecStep(p)
        \/ Persist(p)
        \/ Release(p)
        \/ Drop(p)

SpecNames == InitNames /\ [][NextNames]_vars

\* ------------------------------------------------------------ the verifier

\* serde_json::Value: the variant and its content.
JNull == [t |-> "Null", v |-> 0]

JBool(b) == [t |-> "Bool", v |-> b]

JNumber(n) == [t |-> "Number", v |-> n]

JString(s) == [t |-> "String", v |-> s]

JArray(elems) == [t |-> "Array", v |-> elems]

JObject(fields) == [t |-> "Object", v |-> fields]

\* The keys of a serde_json::Map in the order the map iterates (sorted).
KeyOrder == <<"k1", "k2">>

\* A plausible slip: the loop over the keys of spec ends after its first turn.
KeysOf_FirstOnly(fields) ==
    LET keys == SelectSeq(KeyOrder, LAMBDA key : key \in DOMAIN fields)
    IN IF keys = << >> THEN keys ELSE <<Head(keys)>>

KeysOf(fields) == SelectSeq(KeyOrder, LAMBDA key : key \in DOMAIN fields)

\* Result<(), VecDeque<String>> of check_value: Ok, or the path of the first
\* divergence.
CheckOk == [ok |-> TRUE, path |-> << >>]

CheckErr(path) == [ok |-> FALSE, path |-> path]

\* release::verify::check_value
RECURSIVE check_value(_, _, _)
check_value(spec, instance, path) ==
    LET RECURSIVE Elems(_)
        Elems(index) ==
            IF index >= Len(instance.v) THEN CheckOk
            ELSE LET r == check_value(spec.v[index + 1], instance.v[index + 1],
                                      Append(path, ToString(index)))
                 IN IF r.ok THEN Elems(index + 1) ELSE r
        RECURSIVE Fields(_)
        Fields(keys) ==
            IF keys = << >> THEN CheckOk
            ELSE LET key == Head(keys)
                     r == IF key \notin DOMAIN instance.v
                          THEN CheckErr(Append(path, key))
                          ELSE check_value(spec.v[key], instance.v[key],
                                           Append(path, key))
                 IN IF r.ok THEN Fields(Tail(keys)) ELSE r
    IN CASE spec.t = "Null" /\ instance.t = "Null" -> CheckOk
         [] spec.t = "Bool" /\ instance.t = "Bool" /\ spec.v = instance.v ->
                CheckOk
         [] spec.t = "Number" /\ instance.t = "Number" /\ spec.v = instance.v ->
                CheckOk
         [] spec.t = "String" /\ instance.t = "String" /\ spec.v = instance.v ->
                CheckOk
         [] /\ spec.t = "Array" /\ instance.t = "Array"
            /\ Len(spec.v) = Len(instance.v) -> Elems(0)
         [] spec.t = "Object" /\ instance.t = "Object" -> Fields(KeysOf(spec.v))
         [] OTHER -> CheckErr(path)

\* release::verify::check_mapping
check_mapping(spec, instance) ==
    \A key \in DOMAIN spec : key \in DOMAIN instance /\ instance[key] = spec[key]

\* metadata.labels of an object: the tool's two labels, where present.
labels_of(object) ==
    [key \in {l \in {"type", "release"} : object[l] # None} |-> object[key]]

\* metadata.annotations of an object.
annotations_of(object) ==
    [key \in {a \in {"version"} : object[a] # None} |-> object[key]]

\* The resource types the discovery of find_api_resources returns.
ResourceTypes == {"ConfigMap", "Secret"}

\* The resource type and metadata.name of the object under an identifier:
\* a is a ConfigMap, s a Secret, and c the Secret that has the name of a.
kind_of(id) == IF id = "a" THEN "ConfigMap" ELSE "Secret"

name_of(id) == IF id = "c" THEN "a" ELSE id

\* find_release_objects, `api.list(&labels)`: the objects of one resource
\* type that match the selector type=managed,release={release_name}.
list_items(store, resource, release_name) ==
    {store[id] : id \in {i \in DOMAIN store :
                            /\ kind_of(i) = resource
                            /\ store[i].type = "managed"
                            /\ store[i].release = release_name}}

\* find_release_objects, `all_items.extend(..)`: the listed objects are keyed
\* by metadata.name; an object listed later replaces one of the same name.
extend(all_items, items) ==
    LET names == {name_of(item.id) : item \in items}
    IN [name \in DOMAIN all_items \cup names |->
            IF name \in names
            THEN CHOOSE item \in items : name_of(item.id) = name
            ELSE all_items[name]]

\* Result<(), VerificationError> of the loop of Manager::verify.
VerifyResult(err, identifier, path) ==
    [err |-> err, identifier |-> identifier, path |-> path]

\* Manager::verify, `real_objects.get(&identifier)`: a key lookup in the map
\* find_release_objects built, which is keyed by metadata.name; whatever is
\* held under the name of the identifier is returned, of whichever kind.
get(real_objects, identifier) ==
    IF name_of(identifier) \in DOMAIN real_objects
    THEN {real_objects[name_of(identifier)]}
    ELSE {}

\* Manager::verify: the loop over state.current, from position i of its
\* iteration order.
RECURSIVE verify_objects(_, _, _, _)
verify_objects(release_name, current, real_objects, i) ==
    IF i > Len(current.order) THEN VerifyResult(None, None, << >>)
    ELSE LET identifier == current.order[i]
             desired == tag_object(release_name, current.map[identifier])
         IN IF get(real_objects, identifier) = {}
            THEN VerifyResult("MissingObject", identifier, << >>)
            ELSE LET reality == CHOOSE object \in get(real_objects, identifier) : TRUE
                     data == check_value(JObject("k1" :> JNumber(desired.data)),
                                         JObject("k1" :> JNumber(reality.data)),
                                         << >>)
                 IN IF ~check_mapping(annotations_of(desired),
                                      annotations_of(reality))
                    THEN VerifyResult("MismatchingAnnotations", identifier, << >>)
                    ELSE IF ~check_mapping(labels_of(desired), labels_of(reality))
                    THEN VerifyResult("MismatchingLabels", identifier, << >>)
                    ELSE IF ~data.ok
                    THEN VerifyResult("MismatchingData", None, data.path)
                    ELSE verify_objects(release_name, current, real_objects,
                                        i + 1)

\* The error Manager::verify returns from its loop: MismatchingData carries
\* the path of the first differing value, the other errors the identifier.
VerifyErr(result) ==
    [Err(result.err, "verify") EXCEPT !.ident = result.identifier,
                                      !.path = result.path]

\* A client calls Manager::verify(release_name).
CallVerify(p) ==
    /\ proc[p].pc \in {"idle", "done"}
    /\ ops[p] > 0
    /\ \E name \in ReleaseNames :
         SetProc(p, [ProcInit EXCEPT
             !.pc = "v_get", !.op = "verify", !.name = name,
             !.preState = Persisted(cms, name), !.prePlan = objs])
    /\ ops' = [ops EXCEPT ![p] = @ - 1]
    /\ UNCHANGED <<objs, cms, faults, menu, planvars>>

\* Manager::verify: ReleaseState::get.
VerifyGetState(p) ==
    LET rec == proc[p]
        name == rec.name
    IN /\ rec.pc = "v_get"
       /\ \/ /\ NoFault
             /\ IF name \notin DOMAIN cms
                THEN SetProc(p, [rec EXCEPT
                                !.pc = "done",
                                !.ret = Err("NoDeployedRelease", "get")])
                ELSE IF ~from_config_map_ok(cms[name])
                THEN SetProc(p, [rec EXCEPT !.pc = "done",
                                    !.ret = GetErr(from_config_map(cms[name]))])
                ELSE LET json == cms[name].data[1]
                     IN \E orders \in DecodeOrders(json) :
                          SetProc(p, [rec EXCEPT
                                !.pc = "v_disc", !.k = 0,
                                !.state = deserialize_state(json, orders)])
          \/ /\ UseFault
             /\ SetProc(p, [rec EXCEPT !.pc = "done",
                                       !.ret = GetErr("KubeError")])
       /\ UNCHANGED <<objs, cms, ops, menu, planvars>>

\* Requests of find_api_resources against a cluster with one core version
\* and no API group: the core versions, the resources of that version, the
\* API groups.
DiscoveryCalls == 3

\* find_release_objects: one request of find_api_resources; after the last
\* one the loop over the resource types begins, in the order in which the
\* HashSet iterates.
VerifyDiscover(p) ==
    LET rec == proc[p]
        asked == [rec EXCEPT !.k = @ + 1]
    IN /\ rec.pc = "v_disc"
       /\ \/ /\ NoFault
             /\ IF asked.k < DiscoveryCalls
                THEN SetProc(p, asked)
                ELSE \E order \in Perms(ResourceTypes) :
                        SetProc(p, [asked EXCEPT !.pc = "v_list",
                                                 !.todo = order,
                                                 !.items = EmptyStore])
          \/ /\ UseFault
             /\ SetProc(p, [rec EXCEPT !.pc = "done",
                                       !.ret = Err("KubeError", "list")])
       /\ UNCHANGED <<objs, cms, ops, menu, planvars>>

\* find_release_objects: the list call of the next resource type; after the
\* last one Manager::verify runs its loop over state.current and returns.
VerifyList(p) ==
    LET rec == proc[p]
        items == list_items(objs, Head(rec.todo), rec.name)
        listed == [rec EXCEPT !.todo = Tail(@), !.items = extend(@, items)]
        result == verify_objects(rec.name, rec.state.current, listed.items, 1)
    IN /\ rec.pc = "v_list"
       /\ \/ /\ NoFault
             /\ SetProc(p, IF listed.todo # << >> THEN listed
                           ELSE [listed EXCEPT
                                    !.pc = "done",
                                    !.ret = IF result.err = None
                                            THEN Ok("Verified")
                                            ELSE VerifyErr(result)])
          \/ /\ UseFault
             /\ SetProc(p, [rec EXCEPT !.pc = "done",
                                       !.ret = Err("KubeError", "list")])
       /\ UNCHANGED <<objs, cms, ops, menu, planvars>>

\* The edits an outside party makes to one live object.
OutsideEdits(object) ==
    { with_label_release(object, None),
      with_label_type(object, None),
      with_annotation_version(object, None) }
    \cup {[object EXCEPT !.data = d] : d \in Data \ {object.data}}

\* The objects of the persisted state of a release, as a deploy tagged them.
Deployed(name) == Tagged(name, deserialize_objects(cms[name].data[1].current, << >>))

\* The identifiers under which the objects of `store` are not those of
\* `deployed`.
Drifted(store, deployed) ==
    {id \in DOMAIN store \cup DOMAIN deployed :
        \/ id \notin DOMAIN store
        \/ id \notin DOMAIN deployed
        \/ store[id] # deployed[id]}

\* Objects an outside party may have touched in one behaviour of SpecVerify.
MaxEdits == 2

\* An outside party edits or deletes a live object of an installed release
\* that it has not touched yet, or creates the Secret c, which has the name of
\* the ConfigMap a, with the labels of the release.
OutsideParty ==
    \E name \in ReleaseNames :
        /\ name \in DOMAIN cms
        /\ from_config_map_ok(cms[name])
        /\ \/ \E id \in DOMAIN objs \ Drifted(objs, Deployed(name)) :
                \/ \E edited \in OutsideEdits(objs[id]) :
                      objs' = Put(objs, id, edited)
                \/ objs' = Remove(objs, id)
           \/ /\ "c" \notin DOMAIN objs
              /\ \E d \in Data : objs' = Put(objs, "c", tag_object(name, Plain("c", d)))
        /\ Cardinality(Drifted(objs', Deployed(name))) <= MaxEdits
        /\ UNCHANGED <<cms, proc, ops, faults, menu, planvars>>

\* Operations and transport faults of SpecVerify.
VerifyOps == 1

VerifyFaults == 1

\* One client verifying a release, an outside party editing live objects.
InitVerify ==
    /\ InitStore \/ InitInstalled \/ InitCorrupt
    /\ ops = [p \in Procs |-> IF p = "p1" THEN VerifyOps ELSE 0]
    /\ faults = VerifyFaults
    /\ menu = ConcInputMaps
    /\ PlanIdle

NextVerify ==
    \/ OutsideParty
    \/ \E p \in Procs :
        \/ CallVerify(p)
        \/ VerifyGetState(p)
        \/ VerifyDiscover(p)
        \/ VerifyList(p)

SpecVerify == InitVerify /\ [][NextVerify]_vars

\* ------------------------------------------------- the plan functions alone

\* The bodies an identifier may carry in an input of SpecPlan: plain objects,
\* and one that already carries labels and an annotation of its own.
Variants(id) ==
    {Plain(id, d) : d \in Data} \cup {Object(id, 1, "lock", "other", "old")}

\* Every object set over Ids, in every iteration order.
AllObjects ==
    UNION {UNION {{Objects(m, order) : order \in Perms(S)} :
                    m \in {f \in [S -> UNION {Variants(id) : id \in S}] :
                              \A id \in S : f[id] \in Variants(id)}} :
           S \in SUBSET Ids}

InitPlan ==
    /\ InitStore
    /\ ops = [p \in Procs |-> 0]
    /\ faults = 0
    /\ menu = {}
    /\ \E name \in ReleaseNames, desired \in AllObjects, previous \in AllObjects :
         pin = [name |-> name, desired |-> desired, previous |-> previous]
    /\ pout = << >>
    /\ pstage = 0

\* ReleasePlan::new is applied to the inputs.
PlanBuild ==
    /\ pstage = 0
    /\ pout' = <<ReleasePlan_new(pin.name, pin.desired, pin.previous)>>
    /\ pstage' = 1
    /\ UNCHANGED <<pin, mgrvars>>

\* ReleasePlan::undo is applied to the plan computed last.
PlanUndo ==
    /\ pstage \in {1, 2}
    /\ pout' = Append(pout, undo(pout[Len(pout)]))
    /\ pstage' = pstage + 1
    /\ UNCHANGED <<pin, mgrvars>>

NextPlan == PlanBuild \/ PlanUndo

SpecPlan == InitPlan /\ [][NextPlan]_vars

\* -------------------------------------------------- the subset check alone

\* Longest array among the JSON values of SpecValue.
MaxLen == 2

JScalars == {JNull, JBool(TRUE), JString("1"), JNumber(1), JNumber(0)}

\* Arrays of at most MaxLen elements and objects over the keys of KeyOrder.
JContainers(elems) ==
    {JArray(a) : a \in UNION {[1..n -> elems] : n \in 0..MaxLen}}
    \cup {JObject(o) : o \in UNION {[K -> elems] : K \in SUBSET Range(KeyOrder)}}

\* Scalars, containers of scalars, and containers holding one such container,
\* the objects with or without a second key.
JValues ==
    LET flat == JContainers(JScalars)
    IN JScalars \cup flat
       \cup {JArray(<<v>>) : v \in flat}
       \cup {JObject(KeyOrder[1] :> v) : v \in flat}
       \cup {JObject((KeyOrder[1] :> v) @@ (KeyOrder[2] :> JNull)) : v \in flat}

InitValue ==
    /\ InitStore
    /\ ops = [p \in Procs |-> 0]
    /\ faults = 0
    /\ menu = {}
    /\ \E spec \in JValues, instance \in JValues :
         pin = [spec |-> spec, instance |-> instance]
    /\ pout = << >>
    /\ pstage = 0

\* check_value is applied to the pair (spec, instance).
ValueCheck ==
    /\ pstage = 0
    /\ pout' = <<check_value(pin.spec, pin.instance, << >>)>>
    /\ pstage' = 1
    /\ UNCHANGED <<pin, mgrvars>>

\* check_value is applied to the pair (spec, spec).
ValueCheckSelf ==
    /\ pstage = 1
    /\ pout' = Append(pout, check_value(pin.spec, pin.spec, << >>))
    /\ pstage' = 2
    /\ UNCHANGED <<pin, mgrvars>>

NextValue == ValueCheck \/ ValueCheckSelf

SpecValue == InitValue /\ [][NextValue]_vars

\* ---------------------------------------------------- the builder alone

\* An apiVersion is the sequence of its segments between slashes: <<"v1">> is
\* "v1", <<"apps", "v1">> is "apps/v1", <<"", "v1">> is "/v1"; the empty
\* string is <<"">>.
ApiVersions ==
    {<<"v1">>, <<"v2">>, <<"apps", "v1">>, <<"", "v1">>, <<"apps", "v1", "x">>}

Kinds == {"ConfigMap", "Secret"}

TypeMeta(api_version, kind) == [api_version |-> api_version, kind |-> kind]

\* Missing type information.
NoTypes == TypeMeta(<< >>, None)

\* A document as deserialized: `types` and `name` may be missing.
DynamicObject(types, name, data) == [types |-> types, name |-> name, data |-> data]

DynamicObjects ==
    {DynamicObject(types, name, data) :
        types \in {NoTypes} \cup {TypeMeta(v, k) : v \in ApiVersions, k \in Kinds},
        name \in {None, "a"},
        data \in Data}

\* split_once('/'): the group is the text before the first slash and the
\* version all the text after it (its segments); without a slash the group is
\* empty and the version the whole text.
split_api_version(api_version) ==
    IF Len(api_version) >= 2
    THEN <<api_version[1], Tail(api_version)>>
    ELSE <<"", api_version>>

GroupVersionKind(group, version, kind) ==
    [group |-> group, version |-> version, kind |-> kind]

NoApiResource == GroupVersionKind(None, << >>, None)

\* TypeMeta::to_api_resource.
to_api_resource(types) ==
    LET gv == split_api_version(types.api_version)
    IN GroupVersionKind(gv[1], gv[2], types.kind)

\* DynamicObject::try_to_api_resource: None without type information.
try_to_api_resource(dyn_object) ==
    IF dyn_object.types = NoTypes
    THEN NoApiResource
    ELSE to_api_resource(dyn_object.types)

\* Object::try_from_dynamic_object, for a document with type information.
try_from_dynamic_object(api_resource, dyn_object) ==
    [api_resource |-> api_resource, dyn_object |-> dyn_object]

NoObject ==
    try_from_dynamic_object(NoApiResource, DynamicObject(NoTypes, None, 0))

NoIdentifier == [gvk |-> NoApiResource, name |-> None]

from_api_resource_NameOnly(name, api_resource) ==
    [gvk |-> GroupVersionKind("", api_resource.version, api_resource.kind),
     name |-> name]

\* Identifier::from_api_resource.
from_api_resource(name, api_resource) ==
    [gvk |-> GroupVersionKind(api_resource.group, api_resource.version,
                              api_resource.kind),
     name |-> name]

insert_KeepsFirst(map, key, value) ==
    [previous |-> IF key \in DOMAIN map THEN map[key] ELSE NoObject,
     map |-> IF key \in DOMAIN map THEN map ELSE Put(map, key, value)]

\* HashMap::insert: the value is stored under the key whether or not the key
\* was present; the value it had before is returned.
insert(map, key, value) ==
    [previous |-> IF key \in DOMAIN map THEN map[key] ELSE NoObject,
     map |-> Put(map, key, value)]

BuilderOk(objects) ==
    [tag |-> "Ok", identifier |-> NoIdentifier, objects |-> objects]

BuilderError(tag, identifier, objects) ==
    [tag |-> tag, identifier |-> identifier, objects |-> objects]

\* Builder::add_dynamic_object on a builder holding `objects`: the result of
\* the call and the builder's objects after it.
add_dynamic_object(objects, dyn_object) ==
    LET api_resource == try_to_api_resource(dyn_object)
        object == try_from_dynamic_object(api_resource, dyn_object)
        identifier == from_api_resource(dyn_object.name, api_resource)
        inserted == insert(objects, identifier, object)
    IN IF api_resource = NoApiResource
       THEN BuilderError("BadDynamicObject", NoIdentifier, objects)
       ELSE IF dyn_object.name = None
       THEN BuilderError("ObjectWithoutName", NoIdentifier, objects)
       ELSE IF inserted.previous # NoObject
       THEN BuilderError("DuplicateObject", identifier, inserted.map)
       ELSE BuilderOk(inserted.map)

\* Builder::finish.
finish(objects) == [inner |-> objects]

\* Calls of add_dynamic_object on one builder.
MaxAdds == 3

\* Builder::new.
InitBuild ==
    /\ InitStore
    /\ ops = [p \in Procs |-> 0]
    /\ faults = 0
    /\ menu = {}
    /\ pin = << >>
    /\ pout = << >>
    /\ pstage = 0

\* One call of add_dynamic_object; pin is the builder's object map, pout the
\* outcome of the last call with the document offered and the map before it.
BuilderAdd ==
    /\ pstage < MaxAdds
    /\ \E dyn_object \in DynamicObjects :
         LET result == add_dynamic_object(pin, dyn_object)
         IN /\ pin' = result.objects
            /\ pout' = <<[tag |-> result.tag, identifier |-> result.identifier,
                          offered |-> dyn_object, before |-> pin]>>
    /\ pstage' = pstage + 1
    /\ UNCHANGED mgrvars

\* The builder is consumed; pout is the finished object set.
BuilderFinish ==
    /\ pstage <= MaxAdds
    /\ pout' = <<[tag |-> "Objects", identifier |-> NoIdentifier,
                  offered |-> NoObject.dyn_object, before |-> pin,
                  objects |-> finish(pin)]>>
    /\ pstage' = MaxAdds + 1
    /\ UNCHANGED <<pin, mgrvars>>

NextBuild == BuilderAdd \/ BuilderFinish

SpecBuild == InitBuild /\ [][NextBuild]_vars

\* ------------------------------------------------------------- properties

Returned(p) == proc[p].pc = "done"

DeployReturned(p) == Returned(p) /\ proc[p].op = "deploy"

LockExists(p) == lock_name(proc[p].name) \in DOMAIN cms

\* The `current` object set of the persisted state of a release.
PersistedCurrent(name) ==
    LET json == cms[name].data[1]
    IN collect(json.current)

\* C1 (Lock mutual exclusion): in every reachable state at most one client
\* holds a lock handle for a name, and the lock object in the store is the one
\* the holder created: a client that met a conflict holds the handle only once
\* the object it conflicted with has been deleted.
C1_MutualExclusion ==
    /\ \A p, q \in Procs :
          (p # q /\ proc[p].held /\ proc[q].held) => proc[p].name # proc[q].name
    /\ \A p \in Procs :
          proc[p].held => (LockExists(p) /\ cms[lock_name(proc[p].name)].owner = p)

\* A client holds the handle after it met a conflict and waited.
C1_Witness ==
    \E p \in Procs : proc[p].held /\ proc[p].waited

\* An execute call has returned a ReleaseError: a forward step failed and the
\* rollback ledger ran without error.
RolledBack(p) ==
    proc[p].pc \in {"drop", "done"} /\ proc[p].ret.err = "ReleaseError"

\* C2 as stated (Rollback invariance, for every plan): after a failed execute
\* whose rollback ran without error the store equals the store before step 0.
C2_RollbackInvariance_AnyStore ==
    \A p \in Procs : RolledBack(p) => objs = proc[p].preExec

\* C2 as amended: after a failed execute whose rollback ran without error the
\* store equals the store before step 0, provided the store held the `old`
\* object of every upgrade and deletion of the plan before step 0.
C2_RollbackInvariance ==
    \A p \in Procs :
        (RolledBack(p) /\ proc[p].consistent) => objs = proc[p].preExec

\* A plan failed at its third step or later and two inverses were executed.
C2_Witness ==
    \E p \in Procs :
        /\ RolledBack(p) /\ proc[p].consistent
        /\ proc[p].k >= 2 /\ proc[p].rk >= 2
        /\ objs = proc[p].preExec

DeployFailed(p) == DeployReturned(p) /\ proc[p].ret.tag = "Err"

StateUntouched(p) == Persisted(cms, proc[p].name) = proc[p].preState

\* C3 as stated (for every error deploy returns): the persisted state object
\* is the one that was there before the call.
C3_StateUnchangedOnError_AnyError ==
    \A p \in Procs : DeployFailed(p) => StateUntouched(p)

\* C3 as amended: whenever deploy returns an error other than the error of
\* the final lock.release(), the persisted state object is the one that was
\* there before the call (absent if it was absent).
C3_StateUnchangedOnError ==
    \A p \in Procs :
        (DeployFailed(p) /\ proc[p].ret.origin # "release") => StateUntouched(p)

\* An upgrade whose state write failed has returned; the old state is in place.
C3_Witness ==
    \E p \in Procs :
        /\ DeployFailed(p) /\ proc[p].ret.origin = "persist"
        /\ proc[p].preState # << >> /\ StateUntouched(p)

DeploySucceeded(p) ==
    DeployReturned(p) /\ proc[p].ret.tag \in {"Installed", "Upgraded"}

CurrentIsDesired(p) ==
    /\ proc[p].name \in DOMAIN cms
    /\ PersistedCurrent(proc[p].name) = proc[p].release.map

\* C4 as stated: after Installed or Upgraded the persisted current set is the
\* desired set and the store holds exactly the tagged desired objects.
C4_SuccessState_ExactStore ==
    \A p \in Procs :
        DeploySucceeded(p) =>
            /\ CurrentIsDesired(p)
            /\ objs = Tagged(proc[p].name, proc[p].release)

\* C4 as amended: after Installed or Upgraded the persisted current set is the
\* desired set, every desired object is in the store in its tagged form, no
\* object of the previous current set that is not desired is in the store, and
\* the store holds exactly the tagged desired objects provided it held exactly
\* the tagged previous objects before the plan.
C4_SuccessState ==
    \A p \in Procs :
        DeploySucceeded(p) =>
            LET want == Tagged(proc[p].name, proc[p].release)
                gone == Objects_ids(proc[p].state.current) \ DOMAIN want
            IN /\ CurrentIsDesired(p)
               /\ \A id \in DOMAIN want : Has(objs, want[id])
               /\ proc[p].ret.tag = "Upgraded" => gone \cap DOMAIN objs = {}
               /\ proc[p].exact => objs = want

\* An upgrade that created, upgraded and deleted objects has returned.
C4_Witness ==
    \E p \in Procs :
        /\ DeploySucceeded(p) /\ proc[p].ret.tag = "Upgraded" /\ proc[p].exact
        /\ proc[p].fwd.creations # << >>
        /\ proc[p].fwd.upgrades # << >>
        /\ proc[p].fwd.deletions # << >>
        /\ objs = Tagged(proc[p].name, proc[p].release)

\* C5 (Deploy atomicity): whenever deploy returns, the forward plan completed
\* and the persisted state records the desired set, or the cluster objects
\* equal the pre-plan state, or the returned error is a RollbackError.
C5_DeployAtomicity ==
    \A p \in Procs :
        DeployReturned(p) =>
            \/ proc[p].forwardDone /\ CurrentIsDesired(p)
            \/ objs = proc[p].prePlan
            \/ proc[p].ret.err = "RollbackError"

\* deploy returned on a path taken after the lock was acquired.
ReturnedAfterLock(p) ==
    DeployReturned(p) /\ proc[p].ret.origin \notin {"lock", "wait"}

\* C6 as stated: on every exit path of deploy taken after the lock was
\* acquired, the lock object no longer exists once deploy has returned.
C6_NoLockAfterReturn_Always ==
    \A p \in Procs : ReturnedAfterLock(p) => ~LockExists(p)

\* C6 as amended: on every exit path of deploy taken after the lock was
\* acquired, the lock object no longer exists once deploy has returned, unless
\* the delete issued by the disposal of the handle failed.
C6_NoLockAfterReturn ==
    \A p \in Procs :
        (ReturnedAfterLock(p) /\ ~proc[p].dropFailed) => ~LockExists(p)

\* deploy returned Unchanged (the early return) and the lock object is gone.
C6_Witness ==
    \E p \in Procs :
        /\ ReturnedAfterLock(p) /\ proc[p].ret.tag = "Unchanged"
        /\ ~proc[p].dropFailed /\ ~LockExists(p)

\* The positions of an operation between two of its accesses to the state and
\* the objects of the release: it has read the state and its next step is a
\* store call on an object of the release or on the state object.
MidOperation == {"exec", "rollback", "persist", "d_state"}

\* C7 (Serialization by the lock): a deploy and another operation (deploy or
\* delete) on the same release are never both between their first and their
\* last access to the release.
C7_Serialized ==
    \A p, q \in Procs :
        (p # q /\ proc[p].name = proc[q].name /\ proc[p].op = "deploy") =>
            ~(proc[p].pc \in MidOperation /\ proc[q].pc \in MidOperation)

PlanIdsOf(seq, Id(_)) == {Id(seq[i]) : i \in 1..Len(seq)}

NewId(action) == action.new.id

OldId(action) == action.old.id

\* C8 (Plan correctness): the identifiers of creations and upgrades.new are
\* those of desired, the identifiers of deletions and upgrades.old are those
\* of previous, and the three classes partition desired.ids \cup previous.ids.
C8_PlanCorrectness ==
    pstage >= 1 =>
        LET plan == pout[1]
            C == PlanIdsOf(plan.creations, NewId)
            U == PlanIdsOf(plan.upgrades, NewId)
            D == PlanIdsOf(plan.deletions, OldId)
            desired == Objects_ids(pin.desired)
            previous == Objects_ids(pin.previous)
        IN /\ C \cup U = desired
           /\ D \cup PlanIdsOf(plan.upgrades, OldId) = previous
           /\ \A i \in 1..Len(plan.upgrades) :
                 plan.upgrades[i].new.id = plan.upgrades[i].old.id
           /\ C \cap U = {} /\ C \cap D = {} /\ U \cap D = {}
           /\ C \cup U \cup D = desired \cup previous
           /\ Cardinality(C) = Len(plan.creations)
           /\ Cardinality(U) = Len(plan.upgrades)
           /\ Cardinality(D) = Len(plan.deletions)

\* A plan with a creation, an upgrade and a deletion was built.
C8_Witness ==
    /\ pstage >= 1
    /\ pout[1].creations # << >>
    /\ pout[1].upgrades # << >>
    /\ pout[1].deletions # << >>

PlanObjects(plan) ==
    {plan.creations[i].new : i \in 1..Len(plan.creations)}
    \cup {plan.upgrades[i].new : i \in 1..Len(plan.upgrades)}
    \cup {plan.upgrades[i].old : i \in 1..Len(plan.upgrades)}
    \cup {plan.deletions[i].old : i \in 1..Len(plan.deletions)}

IsTagged(object, release_name) ==
    /\ object.type = "managed"
    /\ object.release = release_name
    /\ object.version = CrateVersion

\* C9 (Tagging universality): every object carried by an action of a built
\* plan, new and old alike, carries type=managed, release={name} and the
\* version annotation with its body as passed in; building the plan leaves the
\* desired and previous object sets as they were.
C9_TaggingUniversality ==
    /\ [](pstage >= 1 =>
            /\ \A o \in PlanObjects(pout[1]) : IsTagged(o, pin.name)
            /\ \A i \in 1..Len(pout[1].creations) :
                 LET o == pout[1].creations[i].new
                 IN o.data = pin.desired.map[o.id].data
            /\ \A i \in 1..Len(pout[1].upgrades) :
                 LET u == pout[1].upgrades[i]
                 IN /\ u.new.data = pin.desired.map[u.new.id].data
                    /\ u.old.data = pin.previous.map[u.old.id].data
            /\ \A i \in 1..Len(pout[1].deletions) :
                 LET o == pout[1].deletions[i].old
                 IN o.data = pin.previous.map[o.id].data)
    /\ [][pin' = pin]_vars

\* A plan was built from objects that carried other labels, or none.
C9_Witness ==
    /\ pstage >= 1
    /\ \E id \in Objects_ids(pin.desired) : pin.desired.map[id].release = "other"
    /\ \E id \in Objects_ids(pin.previous) : pin.previous.map[id].release = None
    /\ pout[1].upgrades # << >>
    /\ pout[1].deletions # << >>

\* C10 (Undo involution): undo(undo(p)) has the creations, the upgrades (new
\* and old) and the deletions of p, up to the order within each class.
C10_UndoInvolution ==
    pstage = 3 =>
        /\ Range(pout[3].creations) = Range(pout[1].creations)
        /\ Range(pout[3].upgrades) = Range(pout[1].upgrades)
        /\ Range(pout[3].deletions) = Range(pout[1].deletions)
        /\ Len(pout[3].creations) = Len(pout[1].creations)
        /\ Len(pout[3].upgrades) = Len(pout[1].upgrades)
        /\ Len(pout[3].deletions) = Len(pout[1].deletions)

\* undo was applied twice to a plan with an upgrade that changes the object.
C10_Witness ==
    /\ pstage = 3
    /\ pout[1].creations # << >>
    /\ pout[1].deletions # << >>
    /\ \E i \in 1..Len(pout[1].upgrades) :
          pout[1].upgrades[i].new # pout[1].upgrades[i].old
    /\ pout[2].creations # pout[1].creations

\* The forward plan of a deploy ran to completion, the state write failed, and
\* the execution of plan.undo() ran to completion as well.
UndoCompleted(p) ==
    /\ proc[p].pc \in {"drop", "done"} /\ proc[p].op = "deploy"
    /\ proc[p].forwardDone
    /\ proc[p].ctx = "undo"
    /\ proc[p].ret.origin = "persist"

\* C11 (Undo restores): when a plan built from (desired, previous) ran to
\* completion on a cluster that held the tagged previous objects, and its undo
\* plan then ran to completion, the cluster objects are those from before the
\* plan was executed.
C11_UndoRestores ==
    \A p \in Procs :
        (UndoCompleted(p) /\ proc[p].holdsPrev) => objs = proc[p].prePlan

\* The undo of a plan with a creation, an upgrade that changes the object and
\* a deletion ran to completion.
C11_Witness ==
    \E p \in Procs :
        /\ UndoCompleted(p) /\ proc[p].holdsPrev
        /\ proc[p].fwd.creations # << >>
        /\ proc[p].fwd.deletions # << >>
        /\ \E i \in 1..Len(proc[p].fwd.upgrades) :
              proc[p].fwd.upgrades[i].new # proc[p].fwd.upgrades[i].old
        /\ proc[p].k = 3
        /\ objs = proc[p].prePlan

\* The call that returned is the second of two deploys in sequence of the same
\* release, the first returned Installed, and the second returned a result.
SecondDeployReturned(p) ==
    /\ DeployReturned(p) /\ proc[p].again
    /\ proc[p].ret.tag # "Err"

\* The length of the history of a persisted state object (of at most one).
HistoryLen(persisted) ==
    IF persisted = << >> THEN 0 ELSE Len(persisted[1].data[1].history)

\* C12 (Deploy idempotence when unchanged): the second of two deploys in
\* sequence of the same release returns Unchanged; it issues no create, apply
\* or delete on release objects, does not write the state object, leaves the
\* history length unchanged and leaves no lock object behind.
C12_DeployIdempotence ==
    \A p \in Procs :
        SecondDeployReturned(p) =>
            /\ proc[p].ret.tag = "Unchanged"
            /\ proc[p].fwd = EmptyPlan /\ proc[p].k = 0
            /\ objs = proc[p].prePlan
            /\ Persisted(cms, proc[p].name) = proc[p].preState
            /\ HistoryLen(Persisted(cms, proc[p].name)) = HistoryLen(proc[p].preState)
            /\ ~LockExists(p)

\* The number of calls of one kind in a log of store calls.
CountOf(log, action) ==
    Cardinality({i \in 1..Len(log) : log[i].action = action})

\* Position of a kind of call in the phase order create, apply, delete.
PhaseOf(action) ==
    CASE action = "Create" -> 1 [] action = "Apply" -> 2 [] action = "Delete" -> 3

\* C13 (Executor phase order): in the calls issued by a run of
\* ReleasePlan::execute no create follows an apply or a delete and no apply
\* follows a delete; when the first apply is issued every creation of the plan
\* has been issued and has returned, when the first delete is issued every
\* upgrade has; a step of a client issues at most one call, after the previous
\* call returned.
C13_PhaseOrder ==
    /\ [](\A p \in Procs :
            LET log == proc[p].calls
                plan == proc[p].plan
            IN /\ \A i, j \in 1..Len(log) :
                     i < j => PhaseOf(log[i].action) <= PhaseOf(log[j].action)
               /\ CountOf(log, "Apply") > 0 =>
                     /\ CountOf(log, "Create") = Len(plan.creations)
                     /\ proc[p].k >= Len(plan.creations)
               /\ CountOf(log, "Delete") > 0 =>
                     /\ CountOf(log, "Create") = Len(plan.creations)
                     /\ CountOf(log, "Apply") = Len(plan.upgrades)
                     /\ proc[p].k >= Len(plan.creations) + Len(plan.upgrades)
               /\ Len(log) \in {proc[p].k, proc[p].k + 1})
    /\ [][\A p \in Procs :
            \/ proc'[p].calls = proc[p].calls
            \/ proc'[p].calls = << >>
            \/ /\ Len(proc'[p].calls) = Len(proc[p].calls) + 1
               /\ Len(proc[p].calls) = proc[p].k]_vars

\* A run of execute has issued a create, an apply and a delete.
C13_Witness ==
    \E p \in Procs :
        /\ CountOf(proc[p].calls, "Create") > 0
        /\ CountOf(proc[p].calls, "Apply") > 0
        /\ CountOf(proc[p].calls, "Delete") > 0

\* The position of a step in a log in which it occurs.
PosIn(log, step) == CHOOSE i \in 1..Len(log) : log[i] = step

\* C14 as stated (ledger executed in registration order): of two inverses the
\* rollback has executed, the one of the earlier successful forward step was
\* executed first.
C14_RegistrationOrder ==
    \A p \in Procs :
        LET log == proc[p].rcalls
            regs == proc[p].regs
        IN \A x, y \in 1..Len(log) :
              x < y => PosIn(regs, log[x]) < PosIn(regs, log[y])

\* C14 as amended: the rollback executes only inverses of successful forward
\* steps, in the phase order create, apply, delete of the inverses themselves
\* (inverses of forward deletions, then of upgrades, then of creations), and
\* within one class the inverse of the earlier forward step first.
C14_LedgerOrder ==
    \A p \in Procs :
        LET log == proc[p].rcalls
            regs == proc[p].regs
        IN /\ \A x \in 1..Len(log) : \E i \in 1..Len(regs) : regs[i] = log[x]
           /\ \A x, y \in 1..Len(log) :
                 x < y =>
                    /\ PhaseOf(log[x].action) <= PhaseOf(log[y].action)
                    /\ log[x].action = log[y].action =>
                          PosIn(regs, log[x]) < PosIn(regs, log[y])

\* A rollback has executed two inverses of one class.
C14_Witness ==
    \E p \in Procs :
        /\ Len(proc[p].rcalls) >= 2
        /\ proc[p].rcalls[1].action = proc[p].rcalls[2].action
        /\ proc[p].rcalls[1] = proc[p].regs[1]

\* A run of ReleasePlan::execute has returned an error.
ExecuteFailed(p) ==
    /\ proc[p].pc \in {"drop", "done"}
    /\ proc[p].ret.origin \in {"plan", "undo"}

\* C15 (Failure result of the executor): when execute has returned an error,
\* the failing step is the last forward call issued, it is the cause the error
\* carries, no forward call was issued twice; the error is an action error
\* exactly when every entry of the ledger was executed without error, and
\* otherwise a RollbackError that carries the cause and the ledger entry that
\* failed, the last rollback call issued.
C15_FailureResult ==
    \A p \in Procs :
        ExecuteFailed(p) =>
            LET rec == proc[p]
                log == rec.calls
                steps == execute_steps(rec.plan)
                entries == rollback_steps(rec.ledger)
            IN /\ Len(log) = rec.k + 1
               /\ \A i \in 1..Len(log) :
                     log[i] = Step(steps[i].action, steps[i].object)
               /\ \A i, j \in 1..Len(log) : i # j => log[i] # log[j]
               /\ rec.ret.cause = log[Len(log)]
               /\ Len(rec.regs) = rec.k
               /\ rec.ret.err \in {"ReleaseError", "RollbackError"}
               /\ rec.ret.err = "ReleaseError" =>
                     /\ rec.rcalls = entries
                     /\ rec.ret.rberr.action = None
               /\ rec.ret.err = "RollbackError" =>
                     /\ Len(rec.rcalls) = rec.rk + 1
                     /\ rec.rk < Len(entries)
                     /\ rec.ret.rberr = entries[rec.rk + 1]
                     /\ rec.ret.rberr = rec.rcalls[Len(rec.rcalls)]

\* A plan failed after a successful step, and its rollback failed after a
\* successful entry: the RollbackError carries both steps.
C15_Witness ==
    \E p \in Procs :
        /\ ExecuteFailed(p)
        /\ proc[p].ret.err = "RollbackError"
        /\ proc[p].k >= 2 /\ proc[p].rk >= 1
        /\ proc[p].ret.cause.action = "Delete"
        /\ proc[p].ret.rberr.action = "Delete"

\* deploy has returned after its state write failed.
PersistFailed(p) ==
    DeployReturned(p) /\ proc[p].forwardDone /\ proc[p].ctx = "undo"

\* C16 (persistence error is the one returned): when the state write fails
\* after the plan ran, deploy executes plan.undo() and returns the error of
\* the state write, also when a step of the undo plan fails.
C16_PersistenceErrorReturned ==
    \A p \in Procs :
        PersistFailed(p) =>
            /\ execute_steps(undo(proc[p].fwd)) # << >> =>
                  /\ proc[p].plan = undo(proc[p].fwd)
                  /\ proc[p].calls # << >>
            /\ proc[p].ret.err = "ReleaseStateError"
            /\ proc[p].ret.origin = "persist"

\* The object sets of a persisted state object (of at most one), as maps: the
\* current set, and the history, newest first.
CurrentMap(persisted) ==
    LET json == persisted[1].data[1]
    IN collect(json.current)

HistoryMaps(persisted) ==
    IF persisted = << >> THEN << >>
    ELSE LET json == persisted[1].data[1]
         IN [i \in 1..Len(json.history) |-> collect(json.history[i])]

\* What a deploy that returned Installed or Upgraded has persisted.
HistoryBookkeeping(p) ==
    LET before == proc[p].preState
        after == Persisted(cms, proc[p].name)
    IN /\ proc[p].ret.tag = "Upgraded" =>
             /\ before # << >> /\ after # << >>
             /\ HistoryMaps(after) = <<CurrentMap(before)>> \o HistoryMaps(before)
             /\ CurrentMap(after) = proc[p].release.map
       /\ proc[p].ret.tag = "Installed" =>
             /\ before = << >> /\ after # << >>
             /\ HistoryMaps(after) = << >>
             /\ CurrentMap(after) = proc[p].release.map

\* C17 as stated (History bookkeeping): an upgrade persists the previous
\* current set in front of the previous history, an install an empty history;
\* the history grows by one with each deploy that returns Upgraded and is the
\* same after a deploy that returns Unchanged or an error.
C17_HistoryBookkeeping_AnyError ==
    \A p \in Procs :
        DeployReturned(p) =>
            /\ HistoryBookkeeping(p)
            /\ proc[p].ret.tag \in {"Unchanged", "Err"} =>
                  HistoryMaps(Persisted(cms, proc[p].name))
                      = HistoryMaps(proc[p].preState)

\* C17 as amended: as stated, for deploys that return Upgraded, Installed,
\* Unchanged or an error other than the error of the final lock.release().
C17_HistoryBookkeeping ==
    \A p \in Procs :
        DeployReturned(p) =>
            /\ HistoryBookkeeping(p)
            /\ (\/ proc[p].ret.tag = "Unchanged"
                \/ proc[p].ret.tag = "Err" /\ proc[p].ret.origin # "release") =>
                  HistoryMaps(Persisted(cms, proc[p].name))
                      = HistoryMaps(proc[p].preState)

\* The second upgrade of a release has returned: two history entries, the
\* newest first.
C17_Witness ==
    \E p \in Procs :
        /\ DeployReturned(p) /\ proc[p].ret.tag = "Upgraded"
        /\ Len(HistoryMaps(Persisted(cms, proc[p].name))) = 2
        /\ HistoryMaps(Persisted(cms, proc[p].name))[1]
              # HistoryMaps(Persisted(cms, proc[p].name))[2]
        /\ HistoryMaps(Persisted(cms, proc[p].name))[1]
              = CurrentMap(proc[p].preState)

\* The positions of a deploy whose next step is the state read, a plan step
\* (forward, rollback or undo) or the state write.
UnderLock == {"get", "exec", "rollback", "persist"}

\* The lock object of the release of p's operation is the one p created.
OwnLock(p) ==
    LockExists(p) /\ cms[lock_name(proc[p].name)].owner = p

\* C18 (Lock wait ordering): a deploy reads the state, executes plan steps and
\* writes the state only while the lock object it created exists: a client
\* that found the lock of another client performs none of these until that
\* lock object has been deleted, and every one of these steps is taken with
\* the client's own lock object in the store.
C18_LockWaitOrdering ==
    /\ [](\A p \in Procs :
            (proc[p].op = "deploy" /\ proc[p].pc \in UnderLock) => OwnLock(p))
    /\ [][\A p \in Procs :
            (/\ proc[p].op = "deploy" /\ proc'[p].op = "deploy"
             /\ \/ objs' # objs
                \/ Persisted(cms', proc[p].name) # Persisted(cms, proc[p].name)
             /\ proc'[p] # proc[p])
            => (proc[p].pc \in UnderLock /\ OwnLock(p))]_vars

\* A client that waited for the lock of the other is about to write the state
\* under its own lock; the other has returned.
C18_Witness ==
    \E p, q \in Procs :
        /\ p # q
        /\ proc[p].op = "deploy" /\ proc[p].waited /\ proc[p].pc = "persist"
        /\ OwnLock(p)
        /\ proc[q].op = "deploy" /\ proc[q].pc = "done"
        /\ proc[q].ret.tag \in {"Installed", "Upgraded"}

\* p is blocked in the acquire on a create conflict.
Blocked(p) ==
    proc[p].op = "deploy" /\ proc[p].pc \in {"wait", "watch"}

\* No other client holds the lock of p's release or will try to create it.
NoContender(p) ==
    \A q \in Procs \ {p} :
        /\ ops[q] = 0
        /\ ~proc[q].held
        /\ ~(proc[q].op = "deploy" /\ proc[q].pc \in {"lock", "wait", "watch"})

\* C19 (Lock liveness): a client blocked on a create conflict obtains the lock
\* once the lock object has been deleted and no other contender exists, both
\* when its watch delivers the deletion event and when the stream closes
\* without delivering it.
C19_LockLiveness ==
    \A p \in Procs :
        (Blocked(p) /\ ~LockExists(p) /\ NoContender(p)) ~> proc[p].held

\* A client holds the lock after a wait that ended with the close of the
\* stream: the lock object was deleted before its watch began.
C19_Witness ==
    \E p \in Procs :
        proc[p].held /\ proc[p].waited /\ proc[p].wake = "closed"

\* The step is the return of ReleaseState::get to client p.
GetReturns(p) ==
    proc[p].pc \in {"get", "d_get"} /\ proc'[p] # proc[p]

\* The outcome of ReleaseState::get for client p, with `undecoded` the error
\* variant for a text that cannot be decoded.
GetOutcome(p, undecoded) ==
    LET name == proc[p].name
        after == proc'[p]
        failed(kind) ==
            /\ after.ret.tag = "Err" /\ after.ret.origin = "get"
            /\ after.ret.err = "ReleaseStateError" /\ after.ret.kind = kind
    IN /\ cms' = cms /\ objs' = objs
       /\ IF faults' < faults THEN failed("KubeError")
          ELSE IF name \notin DOMAIN cms
          THEN IF proc[p].op = "deploy"
               THEN after.ctx = "install" /\ after.ret.origin # "get"
               ELSE after.ret.tag = "NotDeployed"
          ELSE IF cms[name].data = << >> THEN failed("CorruptReleaseState")
          ELSE IF ~decodable(cms[name].data[1]) THEN failed(undecoded)
          ELSE /\ after.ret.origin # "get"
               /\ after.state.current.map = PersistedCurrent(name)
               /\ Len(after.state.history) = Len(cms[name].data[1].history)

\* C20 (ReleaseState::get outcome): absent on not-found, the store's
\* error on a transport failure, CorruptState when data["release_state"] is
\* missing or cannot be decoded, the decoded state otherwise; no store change.
C20_GetOutcome_CorruptOnUndecodable ==
    [][\A p \in Procs :
         GetReturns(p) => GetOutcome(p, "CorruptReleaseState")]_vars

DeleteReturned(p) == Returned(p) /\ proc[p].op = "delete"

\* What Manager::delete does up to its return, apart from the objects a
\* failed plan leaves behind.
DeleteContract(p) ==
    LET rec == proc[p]
        found == rec.preState # << >> /\ rec.ret.origin # "get"
    IN /\ (rec.preState = << >> /\ rec.ret.origin # "get") =>
             /\ rec.ret.tag = "NotDeployed"
             /\ objs = rec.prePlan /\ StateUntouched(p)
             /\ rec.calls = << >>
       /\ found =>
             /\ rec.fwd.creations = << >> /\ rec.fwd.upgrades = << >>
             /\ {rec.fwd.deletions[i].old : i \in 1..Len(rec.fwd.deletions)}
                   = Range([i \in 1..Len(rec.state.current.order) |->
                              Tagged(rec.name, rec.state.current)
                                  [rec.state.current.order[i]]])
             /\ \A i \in 1..Len(rec.calls) : rec.calls[i].action = "Delete"
       /\ (found /\ ~StateUntouched(p)) =>
             /\ rec.ret.tag = "Deleted"
             /\ rec.k = Len(rec.fwd.deletions)
             /\ \A i \in 1..Len(rec.fwd.deletions) :
                   rec.fwd.deletions[i].old.id \notin DOMAIN objs
       /\ rec.ret.origin = "plan" =>
             /\ StateUntouched(p)
             /\ rec.ret.tag = "Err"
             /\ rec.ret.err \in {"ReleaseError", "RollbackError"}

\* The objects the failed plan of a delete had deleted are in the store again.
Recreated(p) ==
    \A i \in 1..proc[p].k : Has(objs, proc[p].calls[i].object)

\* C21 as stated (Manager::delete): None and no store change without a state;
\* otherwise a plan of deletions of state.current, the state object deleted
\* only after all of them; when a deletion fails the state object stays, the
\* objects already deleted are there again and an error is returned.
C21_DeleteContract_AlwaysRecreated ==
    \A p \in Procs :
        DeleteReturned(p) =>
            /\ DeleteContract(p)
            /\ proc[p].ret.origin = "plan" => Recreated(p)

\* C21 as amended: as stated, the objects already deleted being there again
\* when the rollback ran without error; otherwise the error is a RollbackError.
C21_DeleteContract ==
    \A p \in Procs :
        /\ (proc[p].op = "delete" /\ proc[p].pc = "d_state") =>
              /\ proc[p].k = Len(proc[p].fwd.deletions)
              /\ proc[p].name \in DOMAIN cms
        /\ DeleteReturned(p) =>
              /\ DeleteContract(p)
              /\ proc[p].ret.origin = "plan" =>
                    IF proc[p].ret.err = "ReleaseError" THEN Recreated(p)
                    ELSE proc[p].ret.rberr.action = "Create"

\* A delete whose second deletion failed has returned: the first object was
\* re-created and the state object is in place.
C21_Witness ==
    \E p \in Procs :
        /\ DeleteReturned(p) /\ proc[p].ret.origin = "plan"
        /\ proc[p].ret.err = "ReleaseError"
        /\ proc[p].k = 1 /\ proc[p].rk = 1
        /\ Recreated(p) /\ proc[p].preState # << >> /\ StateUntouched(p)

\* Manager::verify returned after its list calls.
VerifyCompared(p) ==
    /\ Returned(p)
    /\ proc[p].op = "verify"
    /\ proc[p].ret.origin # "get"
    /\ proc[p].ret.origin # "list"

\* From the call of verify to its return the live objects are those of the
\* state read by verify, except that the release label of the object `id` was
\* removed.
ReleaseLabelRemoved(p, id) ==
    LET live == Tagged(proc[p].name, proc[p].state.current)
    IN /\ id \in DOMAIN live
       /\ proc[p].prePlan = Put(live, id, with_label_release(live[id], None))
       /\ objs = proc[p].prePlan

\* C22 (verify detects label drift): when the state of a release is persisted,
\* all its objects are live and an outside party removed the label
\* release={name} from one of them, verify returns MismatchingLabels for the
\* identifier of that object.
C22_LabelDriftDetected ==
    \A p \in Procs : \A id \in Ids :
        VerifyCompared(p) /\ ReleaseLabelRemoved(p, id) =>
            /\ proc[p].ret.err = "MismatchingLabels"
            /\ proc[p].ret.ident = id

\* The relation the verifier is to decide: scalars are equal, arrays have the
\* same length and match element by element, every key of a spec object is in
\* the instance object with a matching value, and no other pairing matches.
RECURSIVE SubsetOf(_, _)
SubsetOf(spec, instance) ==
    IF spec.t # instance.t THEN FALSE
    ELSE IF spec.t = "Array"
    THEN /\ Len(spec.v) = Len(instance.v)
         /\ \A i \in 1..Len(spec.v) : SubsetOf(spec.v[i], instance.v[i])
    ELSE IF spec.t = "Object"
    THEN \A key \in DOMAIN spec.v :
            /\ key \in DOMAIN instance.v
            /\ SubsetOf(spec.v[key], instance.v[key])
    ELSE spec.v = instance.v

\* The object `wider` holds every field of the object `fields` unchanged and
\* at least one key more.
ExtraKeys(fields, wider) ==
    /\ DOMAIN fields \subseteq DOMAIN wider
    /\ DOMAIN fields # DOMAIN wider
    /\ \A key \in DOMAIN fields : wider[key] = fields[key]

\* C23 (verifier subset semantics): check_value(spec, spec) is Ok; check_value(
\* spec, instance) is Ok exactly when scalars are equal, arrays have equal
\* length with element-wise matches and every key of a spec object exists in
\* the instance object with a recursively matching value; extra keys of an
\* instance object never cause a failure, arrays of different lengths and
\* values of different types always do.
C23_SubsetSemantics ==
    /\ pstage >= 1 =>
          LET spec == pin.spec
              instance == pin.instance
              ok == pout[1].ok
          IN /\ ok <=> SubsetOf(spec, instance)
             /\ spec.t # instance.t => ~ok
             /\ spec.t = "Array" /\ instance.t = "Array"
                    /\ Len(spec.v) # Len(instance.v) => ~ok
             /\ spec.t = "Object" /\ instance.t = "Object"
                    /\ ExtraKeys(spec.v, instance.v) => ok
    /\ pstage >= 2 => pout[2].ok

\* check_value accepted an instance object with an extra key whose common
\* key holds an array, and check_value(spec, spec) was Ok as well.
C23_Witness ==
    /\ pstage = 2
    /\ pout[1].ok
    /\ pout[2].ok
    /\ pin.spec.t = "Object"
    /\ ExtraKeys(pin.spec.v, pin.instance.v)
    /\ \E key \in DOMAIN pin.spec.v :
          /\ pin.spec.v[key].t = "Array"
          /\ Len(pin.spec.v[key].v) = MaxLen

\* C24 (hash stability): the content hash of a release depends only on its
\* name and its set of (identifier, object) pairs: whenever a deploy has read
\* or built the state of its release and state.current holds the same objects
\* under the same identifiers as the desired release, the release rebuilt from
\* state.current and the desired release hash equal.
C24_HashStability ==
    \A p \in Procs :
        /\ proc[p].op = "deploy"
        /\ proc[p].state.current.map = proc[p].release.map
        => hash_value(proc[p].name, proc[p].state.current)
              = hash_value(proc[p].name, proc[p].release)

\* The names under which a ReleaseState is persisted.
PersistedStates ==
    {name \in DOMAIN cms : /\ cms[name].type = "release-state"
                            /\ from_config_map_ok(cms[name])}

\* C25 as claimed (persisted-state invariant): every object inside the current
\* set of every persisted ReleaseState carries the labels type=managed and
\* release={name}.
C25_PersistedTagged ==
    \A name \in PersistedStates :
        \A id \in DOMAIN PersistedCurrent(name) :
            /\ PersistedCurrent(name)[id].type = "managed"
            /\ PersistedCurrent(name)[id].release = name

\* C25 (persisted-state invariant, amended): the current set of every
\* persisted ReleaseState is an object set as it was passed to deploy, its
\* objects unchanged; each of them carries the labels type=managed and
\* release={name} once tagged the way the readers of the state tag it.
C25_PersistedAsDeployed ==
    \A name \in PersistedStates :
        /\ PersistedCurrent(name) \in menu
        /\ \A id \in DOMAIN PersistedCurrent(name) :
              LET tagged == tag_object(name, PersistedCurrent(name)[id])
              IN tagged.type = "managed" /\ tagged.release = name

\* An upgrade persisted its release: the state has a history and its current
\* objects carry no label, while the live objects carry both.
C25_Witness ==
    \E name \in PersistedStates :
        /\ HistoryLen(Persisted(cms, name)) = 1
        /\ DOMAIN PersistedCurrent(name) = DOMAIN objs
        /\ \A id \in DOMAIN objs :
              /\ PersistedCurrent(name)[id].type = None
              /\ PersistedCurrent(name)[id].release = None
              /\ objs[id] = tag_object(name, PersistedCurrent(name)[id])

\* The state object of the release a client operates on is in the store.
StatePresent(p) == proc[p].name \in DOMAIN cms

\* What every return of deploy and delete leaves of the state object, the
\* failed first install aside: Installed is returned by a deploy that found no
\* state and leaves one; a deploy that found a state leaves a state, whatever
\* it returns; a delete that returns a plan leaves none.
LifecycleAtReturn(p) ==
    /\ DeployReturned(p) /\ proc[p].ret.tag = "Installed" =>
          proc[p].preState = << >> /\ StatePresent(p)
    /\ DeployReturned(p) /\ proc[p].preState # << >> =>
          StatePresent(p) /\ proc[p].ret.tag # "Installed"
    /\ DeleteReturned(p) /\ proc[p].ret.tag = "Deleted" =>
          proc[p].preState # << >> /\ ~StatePresent(p)

\* A deploy that found no state returned an error.
FirstInstallFailed(p) ==
    DeployFailed(p) /\ proc[p].preState = << >>

\* The state object appears only with the state write of an install and
\* disappears only with the delete call on the state object of a delete.
LifecycleStep ==
    \A name \in ReleaseNames :
        /\ name \notin DOMAIN cms /\ name \in DOMAIN cms' =>
              \E p \in Procs : /\ proc[p].pc = "persist"
                                /\ proc[p].ctx = "install"
                                /\ proc[p].name = name
        /\ name \in DOMAIN cms /\ name \notin DOMAIN cms' =>
              \E p \in Procs : /\ proc[p].pc = "d_state"
                                /\ proc[p].name = name

\* C26 as claimed (state lifecycle): the state object of a release is absent
\* until the first deploy of the release returns Installed, present through
\* every later deploy, absent again after a delete that returns a plan, and a
\* failed first install leaves it absent.
C26_StateLifecycle_AnyFailure ==
    /\ [](\A p \in Procs :
            /\ LifecycleAtReturn(p)
            /\ FirstInstallFailed(p) => ~StatePresent(p))
    /\ [][LifecycleStep]_vars

\* C26 (state lifecycle, amended): as claimed, except that a first install
\* that fails with the error of the final lock.release() has written the state
\* object and leaves it present; every other failed first install leaves it
\* absent.
C26_StateLifecycle ==
    /\ [](\A p \in Procs :
            /\ LifecycleAtReturn(p)
            /\ FirstInstallFailed(p) =>
                  (StatePresent(p) <=> proc[p].ret.origin = "release"))
    /\ [][LifecycleStep]_vars

\* A delete has returned the plan of a release that was installed and then
\* upgraded: the state object is gone.
C26_Witness ==
    \E p \in Procs :
        /\ DeleteReturned(p)
        /\ proc[p].ret.tag = "Deleted"
        /\ HistoryLen(proc[p].preState) = 1
        /\ ~StatePresent(p)

\* Two clients deploy releases of distinct names with disjoint identifiers.
DistinctReleases(p, q) ==
    /\ p # q
    /\ proc[p].op = "deploy"
    /\ proc[q].op = "deploy"
    /\ proc[p].name # proc[q].name
    /\ Objects_ids(proc[p].release) \cap Objects_ids(proc[q].release) = {}

\* The config map stored under `name` is a state object.
IsStateObject(name) ==
    name \in DOMAIN cms /\ cms[name].type = "release-state"

\* C27 (independence of different releases): when two clients deploy releases
\* of distinct names with disjoint identifiers and no transport call fails,
\* the lock object name of one is not the state object name of the other, no
\* deploy waits on a state object in place of its lock, none reads a lock
\* object as its state, and none returns an error.
C27_Independence ==
    \A p, q \in Procs :
        DistinctReleases(p, q) =>
            /\ lock_name(proc[p].name) # proc[q].name
            /\ ~(/\ proc[p].pc \in {"wait", "watch"}
                  /\ IsStateObject(lock_name(proc[p].name)))
            /\ ~(Returned(p) /\ proc[p].ret.tag = "Err")

\* The forward steps of the running execute that have succeeded so far: the
\* calls issued, the failing one aside.
Succeeded(p) == SubSeq(proc[p].calls, 1, proc[p].k)

\* The objects of the successful forward calls of one action, in call order.
SucceededObjects(p, action) ==
    LET sel == SelectSeq(Succeeded(p), LAMBDA call : call.action = action)
    IN [i \in 1..Len(sel) |-> sel[i].object]

\* The previous version of the object an upgrade of the plan applied.
OldOf(plan, new) ==
    (CHOOSE upgrade \in Range(plan.upgrades) : upgrade.new = new).old

\* C28 (ledger contents): at every point of ReleasePlan::execute the rollback
\* ledger holds exactly one inverse per forward step that has succeeded so
\* far: Delete(X) for a successful create of X, Apply(old) for a successful
\* upgrade, Create(X) for a successful delete of X, and nothing for the
\* failing step or for the steps not yet run.
C28_LedgerContents ==
    \A p \in Procs :
        LET ledger == proc[p].ledger
            applied == SucceededObjects(p, "Apply")
        IN /\ Len(proc[p].calls) \in {proc[p].k, proc[p].k + 1}
           /\ proc[p].k <= Len(execute_steps(proc[p].plan))
           /\ ledger.deletions = SucceededObjects(p, "Create")
           /\ ledger.upgrades =
                 [i \in 1..Len(applied) |-> OldOf(proc[p].plan, applied[i])]
           /\ ledger.creations = SucceededObjects(p, "Delete")
           /\ Len(ledger.deletions) + Len(ledger.upgrades)
                 + Len(ledger.creations) = proc[p].k

\* Two upgrades succeeded and the deletion that followed failed: the ledger
\* holds the two previous versions and no create.
C28_Witness ==
    \E p \in Procs :
        /\ proc[p].pc = "rollback"
        /\ proc[p].k = 2
        /\ Len(proc[p].calls) = 3
        /\ proc[p].calls[3].action = "Delete"
        /\ Len(proc[p].ledger.upgrades) = 2
        /\ proc[p].ledger.creations = << >>
        /\ proc[p].ledger.upgrades[1] # proc[p].calls[1].object

\* The store after the store calls `steps`, all of which succeed.
RECURSIVE ApplyAll(_, _)
ApplyAll(store, steps) ==
    IF steps = << >> THEN store
    ELSE ApplyAll(perform(store, Head(steps).action, Head(steps).object).store,
                  Tail(steps))

\* An operation returned the error of a rollback that failed.
RollbackFailed(p) == Returned(p) /\ proc[p].ret.err = "RollbackError"

\* C29 (the rollback engine stops at its first failing operation): when an
\* operation returns a RollbackError, the rollback calls issued are the
\* entries of the ledger up to the failing one and none after it, the error
\* carries the action and the object of the failing call, and the objects are
\* as the successful forward steps and the successful rollback calls left
\* them: nothing compensates the rollback.
C29_RollbackStops ==
    \A p \in Procs :
        RollbackFailed(p) =>
            LET entries == rollback_steps(proc[p].ledger)
                rk == proc[p].rk
            IN /\ rk < Len(entries)
               /\ proc[p].rcalls = SubSeq(entries, 1, rk + 1)
               /\ proc[p].ret.rberr = entries[rk + 1]
               /\ proc[p].ret.cause = proc[p].calls[proc[p].k + 1]
               /\ objs = ApplyAll(ApplyAll(proc[p].preExec, Succeeded(p)),
                                  SubSeq(entries, 1, rk))

\* A rollback of two entries failed at its first call: the second entry was
\* never issued and both forward steps stay in effect.
C29_Witness ==
    \E p \in Procs :
        /\ RollbackFailed(p)
        /\ Len(rollback_steps(proc[p].ledger)) = 2
        /\ proc[p].rk = 0
        /\ Len(proc[p].rcalls) = 1
        /\ objs = ApplyAll(proc[p].preExec, Succeeded(p))
        /\ objs # proc[p].preExec

\* The create call of the lock object of client p fails with a transport
\* error in this step.
LockCreateFails(p) ==
    /\ proc[p].pc = "lock"
    /\ proc'[p] # proc[p]
    /\ faults' < faults

\* C30 (lock create failure): when the create of the lock object fails with
\* an error other than a conflict, acquire fails at once with that error: the
\* operation returns it in the same step without waiting or retrying, the
\* client holds no handle, and the store is not called again for the lock
\* name (the config maps stay as they are and Drop does not run).
C30_LockCreateFailure ==
    /\ [][\A p \in Procs :
            LockCreateFails(p) =>
                /\ proc'[p].pc = "done"
                /\ proc'[p].ret = Err("KubeError", "lock")
                /\ ~proc'[p].held
                /\ proc'[p].waited = proc[p].waited
                /\ cms' = cms]_vars
    /\ [](\A p \in Procs :
            proc[p].ret.origin = "lock" =>
                /\ proc[p].pc = "done"
                /\ ~proc[p].held
                /\ ~proc[p].dropFailed)

\* A deploy returned the error of its first create of the lock object: it
\* never waited and there is no lock object.
C30_Witness ==
    \E p \in Procs :
        /\ DeployReturned(p)
        /\ proc[p].ret = Err("KubeError", "lock")
        /\ ~proc[p].waited
        /\ ~proc[p].held
        /\ ~LockExists(p)

\* The watch of wait_for_deletion of client p breaks in this step: the watch
\* call fails or the stream yields an error.
WatchBreaks(p) ==
    /\ proc[p].pc \in {"wait", "watch"}
    /\ proc'[p] # proc[p]
    /\ faults' < faults

\* C31 (broken subscription stream): when the watch of the conflict wait
\* cannot be opened or yields an error, acquire goes back to the create of the
\* lock object instead of failing.
C31_BrokenWatchRetried ==
    [][\A p \in Procs : WatchBreaks(p) => proc'[p].pc = "lock"]_vars

\* The positions of a client inside Lock::new_with.
InAcquire == {"lock", "wait", "watch"}

\* C32 as claimed (the lock is non-re-entrant): a client that holds a handle
\* for a name and calls acquire for the same name again never returns from the
\* second acquire.
C32_NonReentrant_NeverReturns ==
    \A p \in Procs : proc[p].nested => proc[p].pc \in InAcquire

\* C32 (the lock is non-re-entrant, amended): the second acquire never returns
\* a handle; it leaves the loop of create and wait only in a step in which one
\* of its own store calls fails with a transport error, and then returns that
\* error; the lock object of the first handle stays in the store throughout.
C32_NonReentrant ==
    /\ [](\A p \in Procs :
            proc[p].nested =>
                /\ proc[p].pc \in InAcquire \cup {"done"}
                /\ proc[p].pc = "done" =>
                      /\ proc[p].ret.err = "KubeError"
                      /\ proc[p].ret.origin \in {"lock", "wait"}
                /\ LockExists(p)
                /\ cms[lock_name(proc[p].name)].owner = p)
    /\ [][\A p \in Procs :
            /\ proc[p].nested
            /\ proc[p].pc \in InAcquire
            /\ proc'[p].pc \notin InAcquire
            => faults' < faults]_vars

\* The second acquire met the conflict, watched until the stream ended and is
\* back at the create, the lock object of the first handle still in place.
C32_Witness ==
    \E p \in Procs :
        /\ proc[p].nested
        /\ proc[p].pc = "lock"
        /\ proc[p].waited
        /\ proc[p].wake = "closed"
        /\ LockExists(p)

\* C33 (release and disposal of a lock handle): a step of release() that
\* succeeds ends the operation without a further delete; a handle that goes
\* out of scope without a successful release is disposed by Drop, which
\* issues one delete of the lock name in one step and leaves the result of the
\* operation as it was, also when that delete fails.
C33_ReleaseAndDisposal ==
    /\ [](\A p \in Procs :
            /\ proc[p].pc = "drop" => proc[p].held /\ ~proc[p].deleted
            /\ proc[p].dropFailed => ~proc[p].deleted)
    /\ [][\A p \in Procs :
            proc'[p] # proc[p] =>
                /\ proc[p].pc = "release" /\ proc'[p].deleted =>
                      /\ proc'[p].pc = "done"
                      /\ lock_name(proc[p].name) \notin DOMAIN cms'
                /\ proc[p].pc = "release" /\ ~proc'[p].deleted =>
                      proc'[p].pc = "drop" /\ cms' = cms
                /\ proc[p].held /\ proc[p].pc # "drop"
                      /\ proc'[p].pc = "done" => proc'[p].deleted
                /\ proc[p].pc = "drop" =>
                      /\ proc'[p].pc = "done"
                      /\ proc'[p].ret = proc[p].ret
                      /\ cms' = IF proc'[p].dropFailed THEN cms
                                ELSE Remove(cms, lock_name(proc[p].name))]_vars

\* A deploy that returned Unchanged disposed its handle without a release and
\* the delete of Drop failed: the result is still Unchanged and the lock
\* object is left behind.
C33_Witness ==
    \E p \in Procs :
        /\ DeployReturned(p)
        /\ proc[p].ret.tag = "Unchanged"
        /\ proc[p].dropFailed
        /\ LockExists(p)

\* The forward step that failed was a create of an object whose identifier
\* was in the store when execute began.
CreateConflict(p) ==
    /\ proc[p].cause.action = "Create"
    /\ proc[p].cause.object.id \in DOMAIN proc[p].preExec

\* C34 (create on conflict): a forward create of an identifier that exists in
\* the store never succeeds; the step fails and the rollback runs; the failed
\* create is not in the ledger, the object that was there is neither deleted
\* nor modified, and when the operation returns the objects created by the
\* earlier steps of the plan are deleted.
C34_CreateConflict ==
    \A p \in Procs :
        /\ \A i \in 1..proc[p].k :
              proc[p].calls[i].action = "Create" =>
                  proc[p].calls[i].object.id \notin DOMAIN proc[p].preExec
        /\ CreateConflict(p) =>
              LET id == proc[p].cause.object.id
              IN /\ proc[p].pc \in {"rollback", "drop", "done"}
                 /\ id \in DOMAIN objs
                 /\ objs[id] = proc[p].preExec[id]
                 /\ \A i \in 1..Len(proc[p].ledger.deletions) :
                       proc[p].ledger.deletions[i].id # id
                 /\ Len(proc[p].ledger.deletions) = proc[p].k
                 /\ proc[p].pc # "rollback" =>
                       /\ proc[p].ret.err = "ReleaseError"
                       /\ proc[p].rcalls = rollback_steps(proc[p].ledger)
                       /\ \A i \in 1..proc[p].k :
                             proc[p].calls[i].object.id \notin DOMAIN objs
                       /\ objs = proc[p].preExec

\* A deploy returned after its second create met an object made by someone
\* else: the first object it created is deleted again, the foreign one is
\* there as before.
C34_Witness ==
    \E p \in Procs :
        /\ DeployReturned(p)
        /\ CreateConflict(p)
        /\ proc[p].k = 1
        /\ proc[p].rk = 1
        /\ proc[p].calls[1].object.id \notin DOMAIN objs
        /\ objs[proc[p].cause.object.id].type = None
        /\ objs = proc[p].preExec

\* A deploy that was cancelled during a plan step has ended.
CancelledDone(p) ==
    /\ Returned(p)
    /\ proc[p].op = "deploy"
    /\ proc[p].ret.tag = "Cancelled"

\* C35 (cancellation): when the caller cancels a deploy while a plan step is
\* in flight, the cancellation is treated as a failure of that step: every
\* entry of the rollback ledger is executed and the cluster objects are those
\* of the pre-plan state.
C35_CancelRollsBack ==
    \A p \in Procs :
        CancelledDone(p) =>
            /\ proc[p].rcalls = rollback_steps(proc[p].ledger)
            /\ objs = proc[p].preExec

\* The last call on the builder was add_dynamic_object.
AddCalled == pout # << >> /\ pout[1].tag # "Objects"

\* Group, version, kind and name of a document, read off the document.
KeyOf(dyn_object) ==
    <<split_api_version(dyn_object.types.api_version)[1],
      split_api_version(dyn_object.types.api_version)[2],
      dyn_object.types.kind, dyn_object.name>>

\* The documents held by an object map.
Held(objects) == {objects[k].dyn_object : k \in DOMAIN objects}

Wellformed(dyn_object) == dyn_object.types # NoTypes /\ dyn_object.name # None

\* C36 (object set keys): an offered object whose (group, version, kind, name)
\* differs from that of every object held is accepted and held next to them,
\* also when it shares its name with one of them; an object whose (group,
\* version, kind, name) equals that of an object held is rejected with
\* DuplicateObject naming that identifier; an object with type information
\* and without a name is rejected with ObjectWithoutName and changes nothing;
\* no two members of a finished object set have the same (group, version,
\* kind, name).
C36_ObjectSetKeys ==
    /\ AddCalled =>
         LET call == pout[1]
             held == Held(call.before)
             same == {h \in held : KeyOf(h) = KeyOf(call.offered)}
         IN /\ Wellformed(call.offered) /\ same = {} =>
                 /\ call.tag = "Ok"
                 /\ Held(pin) = held \cup {call.offered}
                 /\ Cardinality(DOMAIN pin) = Cardinality(DOMAIN call.before) + 1
            /\ Wellformed(call.offered) /\ same # {} =>
                 /\ call.tag = "DuplicateObject"
                 /\ call.identifier \in DOMAIN call.before
                 /\ <<call.identifier.gvk.group, call.identifier.gvk.version,
                      call.identifier.gvk.kind, call.identifier.name>>
                        = KeyOf(call.offered)
            /\ call.offered.types # NoTypes /\ call.offered.name = None =>
                 /\ call.tag = "ObjectWithoutName"
                 /\ pin = call.before
    /\ pout # << >> /\ pout[1].tag = "Objects" =>
         LET inner == pout[1].objects.inner
         IN \A k1, k2 \in DOMAIN inner :
                KeyOf(inner[k1].dyn_object) = KeyOf(inner[k2].dyn_object)
                    => k1 = k2

\* An object was accepted next to one of the same name, and a builder holding
\* two objects of one name was finished.
C36_Witness ==
    /\ pout # << >>
    /\ pout[1].tag = "Objects"
    /\ \E k1, k2 \in DOMAIN pin : k1 # k2 /\ k1.name = k2.name

\* C37 (duplicate object): when add_dynamic_object returns DuplicateObject,
\* the entry of the builder under that identifier is the newly offered object
\* and no longer the one stored before; the other entries are as before.
C37_DuplicateReplaces ==
    AddCalled /\ pout[1].tag = "DuplicateObject" =>
        LET call == pout[1]
        IN /\ DOMAIN pin = DOMAIN call.before
           /\ pin[call.identifier].dyn_object = call.offered
           /\ \A k \in DOMAIN pin \ {call.identifier} : pin[k] = call.before[k]

\* DuplicateObject was returned for an object that differs from the one held.
C37_Witness ==
    /\ AddCalled
    /\ pout[1].tag = "DuplicateObject"
    /\ pin # pout[1].before
    /\ pout[1].before[pout[1].identifier].dyn_object # pout[1].offered

\* deploy returned Installed, Upgraded or Unchanged.
DeployOk(p) ==
    DeployReturned(p) /\ proc[p].ret.tag \in {"Installed", "Upgraded", "Unchanged"}

\* The history a deploy leaves, from the state it read under the lock.
HistoryAfter(p) ==
    LET read == proc[p].state
        history == [i \in 1..Len(read.history) |-> read.history[i].map]
    IN CASE proc[p].ret.tag = "Installed" -> << >>
         [] proc[p].ret.tag = "Unchanged" -> history
         [] OTHER -> <<read.current.map>> \o history

\* The store is what deploy `first` followed by deploy `second` leaves.
SerialOrder(first, second) ==
    LET name == proc[second].name
        final == Persisted(cms, name)
    IN /\ final # << >>
       /\ CurrentMap(final) = proc[second].release.map
       /\ HistoryMaps(final) = <<proc[first].release.map>> \o HistoryAfter(first)
       /\ proc[second].ret.tag = "Upgraded"
       /\ proc[second].state.current.map = proc[first].release.map
       /\ objs = Tagged(name, proc[second].release)

BothDeployed ==
    /\ \A p \in Procs : DeployOk(p)
    /\ proc["p1"].name = proc["p2"].name
    /\ proc["p1"].release.map # proc["p2"].release.map

\* C38 (serializability of concurrent deploys): when the two clients have
\* deployed different object sets to one release and both deploys returned
\* success, the persisted state and the cluster objects are those of one of the
\* two serial orders: current is the set of the second, history[0] the set of
\* the first followed by the history the first left, and the objects are
\* exactly the tagged objects of the second.
C38_SerializableDeploys ==
    BothDeployed => SerialOrder("p1", "p2") \/ SerialOrder("p2", "p1")

\* Both deploys succeeded and one of them had to wait for the lock of the
\* other; an object of the first set that the second set lacks is gone.
C38_Witness ==
    /\ BothDeployed
    /\ \E p \in Procs : proc[p].waited
    /\ \E p \in Procs : DOMAIN proc[p].release.map \ DOMAIN objs # {}

\* deploy returned the error of its final lock.release().
ReleaseFailed(p) ==
    /\ DeployReturned(p)
    /\ proc[p].ret.tag = "Err"
    /\ proc[p].ret.origin = "release"

\* C39 (failure of the explicit release): when lock.release() fails at the end
\* of a deploy whose plan and state write succeeded, deploy returns that
\* error; no undo or rollback step is run, so the cluster holds the tagged
\* desired objects and the persisted current set is the desired set; the
\* handle is then disposed and its Drop issues the delete of the lock object
\* once more.
C39_ReleaseFailure ==
    /\ [](\A p \in Procs :
            ReleaseFailed(p) =>
                /\ proc[p].ret.err = "KubeError"
                /\ proc[p].ctx \in {"install", "upgrade"}
                /\ proc[p].rcalls = << >>
                /\ HoldsAll(objs, Tagged(proc[p].name, proc[p].release))
                /\ CurrentIsDesired(p)
                /\ ~proc[p].deleted)
    /\ [][\A p \in Procs :
            /\ proc[p].pc = "release" /\ proc'[p] # proc[p]
                  /\ ~proc'[p].deleted =>
                  /\ proc'[p].ret = Err("KubeError", "release")
                  /\ proc'[p].pc = "drop"
                  /\ objs' = objs /\ cms' = cms
            /\ proc[p].pc = "drop" /\ proc[p].ret.origin = "release"
                  /\ proc'[p] # proc[p] =>
                  /\ proc'[p].pc = "done"
                  /\ objs' = objs
                  /\ \/ cms' = Remove(cms, lock_name(proc[p].name))
                     \/ proc'[p].dropFailed /\ cms' = cms]_vars

\* The release failed, deploy returned its error, and the delete issued by
\* Drop removed the lock object.
C39_Witness ==
    \E p \in Procs :
        /\ ReleaseFailed(p)
        /\ ~proc[p].dropFailed
        /\ ~LockExists(p)
        /\ CurrentIsDesired(p)

\* deploy returned after the state write failed, a step of plan.undo() failed
\* and every entry of the ledger of the undo was executed without an error.
UndoCompensated(p) ==
    /\ DeployReturned(p)
    /\ proc[p].ctx = "undo"
    /\ proc[p].cause # NoStep
    /\ proc[p].rk = Len(rollback_steps(proc[p].ledger))

\* C40 (failed undo, clean compensation): when the state write fails, a step
\* of plan.undo() fails and the compensation of the undo completes, the
\* cluster objects are those the forward plan left, the persisted state is the
\* one from before the deploy, and deploy returns a plain release error that
\* names the failed undo step and carries no rollback error.
C40_UndoFailureMasked ==
    \A p \in Procs :
        UndoCompensated(p) =>
            /\ objs = proc[p].preExec
            /\ HoldsAll(objs, Tagged(proc[p].name, proc[p].release))
            /\ StateUntouched(p)
            /\ proc[p].ret.tag = "Err"
            /\ proc[p].ret.err = "ReleaseError"
            /\ proc[p].ret.origin = "undo"
            /\ proc[p].ret.cause = proc[p].cause
            /\ proc[p].ret.rberr = NoStep

\* The undo had undone one object before its second step failed, and the
\* compensation put that object back.
C40_Witness ==
    \E p \in Procs :
        /\ UndoCompensated(p)
        /\ proc[p].k >= 1
        /\ proc[p].rk >= 1
        /\ objs # proc[p].prePlan

=============================================================================
